---- MODULE Spec2Model ----
(***************************************************************************)
(* The Anthropic adapter of packages/openai-adapters: the stream decoder   *)
(* handleStreamResponse, the two chat-completion entry points              *)
(* chatCompletionStream and chatCompletionNonStream, and the HTTP          *)
(* responses they are driven by.                                           *)
(*                                                                         *)
(* An optional JavaScript value (undefined or a value) is a sequence of    *)
(* length 0 or 1.  Text is a sequence of characters, so that string        *)
(* concatenation is \o.                                                    *)
(***************************************************************************)
EXTENDS Integers, Sequences, FiniteSets, TLC

\* ------------------------------------------------------------------ bounds

\* The longest vendor stream explored over the whole event alphabet.
MaxEvents == 3

\* The longest vendor stream of each of two concurrent calls.
MaxConcEvents == 2

\* The longest stream of content-block events explored.
MaxBlockEvents == 4

\* ------------------------------------------------------- program constants

\* The sentinel status of a request aborted by the caller.
AbortedStatus == 499

\* ------------------------------------------------------------ JS helpers

Undefined == <<>>

Some(v) == <<v>>

\* a ?? d
Coalesce(a, d) == IF a = Undefined THEN d ELSE a[1]

\* !x for an optional string: undefined and "" are falsy.
Falsy(x) == x = Undefined \/ x = Some("")

\* ------------------------------------------------------- the vendor wire

MessageStart(input, cacheRead) ==
  [type |-> "message_start", input_tokens |-> input,
   cache_read_input_tokens |-> cacheRead]

ContentBlockStartText ==
  [type |-> "content_block_start", block_type |-> "text"]

ContentBlockStartTool(id, name) ==
  [type |-> "content_block_start", block_type |-> "tool_use",
   id |-> id, name |-> name]

TextDelta(text) ==
  [type |-> "content_block_delta", delta_type |-> "text_delta", text |-> text]

InputJsonDelta(json) ==
  [type |-> "content_block_delta", delta_type |-> "input_json_delta",
   partial_json |-> json]

\* A delta type the decoder has no case for.
ThinkingDelta ==
  [type |-> "content_block_delta", delta_type |-> "thinking_delta"]

ContentBlockStop == [type |-> "content_block_stop"]

MessageDelta(output) == [type |-> "message_delta", output_tokens |-> output]

MessageStop == [type |-> "message_stop"]

\* An event tag the decoder has no case for.
Ping == [type |-> "ping"]

Hi == <<"H", "i">>

Frag1 == <<"{", "a">>

Frag2 == <<":", "1", "}">>

StartEvents ==
  {MessageStart(Undefined, Undefined), MessageStart(Some(10), Undefined),
   MessageStart(Some(10), Some(4))}

ToolStarts == {ContentBlockStartTool("t1", "f"), ContentBlockStartTool("t2", "g")}

JsonDeltas == {InputJsonDelta(Frag1), InputJsonDelta(Frag2)}

UsageDeltas == {MessageDelta(Undefined), MessageDelta(Some(3))}

\* The events a vendor stream is made of.
Events ==
  StartEvents \cup ToolStarts \cup JsonDeltas \cup UsageDeltas
    \cup {ContentBlockStartText, TextDelta(Hi), ThinkingDelta,
          ContentBlockStop, MessageStop, Ping}

\* The events of the streams of two concurrent calls.
ConcEvents ==
  ToolStarts \cup {InputJsonDelta(Frag1), ContentBlockStop,
                   MessageStart(Some(10), Some(4)), MessageDelta(Some(3))}

\* The events that open, fill and close content blocks.
BlockEvents ==
  ToolStarts \cup {ContentBlockStartText, TextDelta(Hi), InputJsonDelta(Frag1),
                   ContentBlockStop}

\* The stream of the worked example of the specification.
ExampleStream ==
  <<MessageStart(Some(10), Undefined), ContentBlockStartText, TextDelta(Hi),
    ContentBlockStop, MessageDelta(Some(3)), MessageStop>>

IsPrefix(s, t) == Len(s) <= Len(t) /\ SubSeq(t, 1, Len(s)) = s

\* ------------------------------------------------------------ the chunks

\* chatChunk({content, model})
chatChunk(content) == [kind |-> "text", content |-> content]

\* chatChunkFromDelta({model, delta: {tool_calls: [...]}})
chatChunkFromDelta(id, name, arguments) ==
  [kind |-> "tool", id |-> id, name |-> name, index |-> 0,
   arguments |-> arguments]

\* usageChatChunk({model, usage})
usageChatChunk(usage) == [kind |-> "usage", usage |-> usage]

\* --------------------------------------------------- handleStreamResponse

\* The locals of one run of the generator.
InitLocals ==
  [lastToolUseId |-> Undefined, lastToolUseName |-> Undefined,
   usage |-> [completion_tokens |-> 0, prompt_tokens |-> 0, total_tokens |-> 0,
              prompt_tokens_details |-> Undefined]]

NoToolUseFound == "No tool use found"

Stay(loc) == [loc |-> loc, yield |-> <<>>, throw |-> Undefined]

\* A decoder that keeps the first tool block's id and name until a stop.
OnContentBlockStartKeepsFirst(loc, value) ==
  IF value.block_type = "tool_use" /\ loc.lastToolUseId = Undefined
  THEN Stay([loc EXCEPT !.lastToolUseId = Some(value.id),
                        !.lastToolUseName = Some(value.name)])
  ELSE Stay(loc)

OnContentBlockStart(loc, value) ==
  IF value.block_type = "tool_use"
  THEN Stay([loc EXCEPT !.lastToolUseId = Some(value.id),
                        !.lastToolUseName = Some(value.name)])
  ELSE Stay(loc)

\* A decoder that starts the usage record afresh with every message_start.
OnMessageStartFresh(loc, value) ==
  Stay([loc EXCEPT
          !.usage = [completion_tokens |-> 0,
                     prompt_tokens |-> Coalesce(value.input_tokens, 0),
                     total_tokens |-> 0,
                     prompt_tokens_details |->
                       Some([cached_tokens |->
                               Coalesce(value.cache_read_input_tokens, 0)])]])

OnMessageStart(loc, value) ==
  Stay([loc EXCEPT
          !.usage.prompt_tokens = Coalesce(value.input_tokens, 0),
          !.usage.prompt_tokens_details =
             Some([cached_tokens |-> Coalesce(value.cache_read_input_tokens, 0)])])

\* A decoder that reports the usage with every message_delta.
OnMessageDeltaYieldsUsage(loc, value) ==
  LET usage == [loc.usage EXCEPT
                  !.completion_tokens = Coalesce(value.output_tokens, 0)]
  IN [loc |-> [loc EXCEPT !.usage = usage],
      yield |-> <<usageChatChunk(usage)>>, throw |-> Undefined]

OnMessageDelta(loc, value) ==
  Stay([loc EXCEPT !.usage.completion_tokens = Coalesce(value.output_tokens, 0)])

OnTextDelta(loc, value) ==
  [loc |-> loc, yield |-> <<chatChunk(value.text)>>, throw |-> Undefined]

\* A decoder that drops a tool-argument delta arriving outside a tool block.
OnInputJsonDeltaDropsOrphan(loc, value) ==
  IF Falsy(loc.lastToolUseId) \/ Falsy(loc.lastToolUseName)
  THEN Stay(loc)
  ELSE [loc |-> loc,
        yield |-> <<chatChunkFromDelta(loc.lastToolUseId[1],
                                       loc.lastToolUseName[1],
                                       value.partial_json)>>,
        throw |-> Undefined]

OnInputJsonDelta(loc, value) ==
  IF Falsy(loc.lastToolUseId) \/ Falsy(loc.lastToolUseName)
  THEN [loc |-> loc, yield |-> <<>>, throw |-> Some(NoToolUseFound)]
  ELSE [loc |-> loc,
        yield |-> <<chatChunkFromDelta(loc.lastToolUseId[1],
                                       loc.lastToolUseName[1],
                                       value.partial_json)>>,
        throw |-> Undefined]

OnContentBlockDelta(loc, value) ==
  CASE value.delta_type = "text_delta" -> OnTextDelta(loc, value)
    [] value.delta_type = "input_json_delta" -> OnInputJsonDelta(loc, value)
    [] OTHER -> Stay(loc)

\* A decoder that keeps the id and name of a block after its stop.
OnContentBlockStopKeeps(loc) == Stay(loc)

OnContentBlockStop(loc) ==
  Stay([loc EXCEPT !.lastToolUseId = Undefined, !.lastToolUseName = Undefined])

\* A decoder that rejects the events it has no case for.
OnOtherEventThrows(loc, value) ==
  [loc |-> loc, yield |-> <<>>, throw |-> Some("Unexpected event")]

OnOtherEvent(loc, value) == Stay(loc)

\* One turn of the for-await loop: the switch on value.type.
Handle(loc, value) ==
  CASE value.type = "content_block_start" -> OnContentBlockStart(loc, value)
    [] value.type = "message_start" -> OnMessageStart(loc, value)
    [] value.type = "message_delta" -> OnMessageDelta(loc, value)
    [] value.type = "content_block_delta" -> OnContentBlockDelta(loc, value)
    [] value.type = "content_block_stop" -> OnContentBlockStop(loc)
    [] OTHER -> OnOtherEvent(loc, value)

\* A usage record that keeps the total it was initialised with.
FinalUsageAsCounted(usage) == usage

\* The usage record of the chunk yielded after the loop.
FinalUsage(usage) ==
  [usage EXCEPT !.total_tokens = usage.completion_tokens + usage.prompt_tokens]

\* Everything handleStreamResponse yields and throws for a stream read to its
\* end (ended) or as far as events: the for-await loop, then the usage chunk.
RECURSIVE RunLoop(_, _, _)
RunLoop(loc, yielded, events) ==
  IF events = <<>>
  THEN [loc |-> loc, yield |-> yielded, throw |-> Undefined]
  ELSE LET r == Handle(loc, Head(events))
       IN IF r.throw # Undefined
          THEN [loc |-> r.loc, yield |-> yielded, throw |-> r.throw]
          ELSE RunLoop(r.loc, yielded \o r.yield, Tail(events))

handleStreamResponse(events, ended) ==
  LET r == RunLoop(InitLocals, <<>>, events)
  IN IF r.throw = Undefined /\ ended
     THEN [r EXCEPT !.yield = Append(r.yield, usageChatChunk(FinalUsage(r.loc.usage)))]
     ELSE r

\* ------------------------------------------------------ the HTTP responses

Statuses == {200, 401, AbortedStatus, 500}

NotJsonBody == [json |-> FALSE, text |-> "Bad Gateway"]

ErrorBody ==
  [json |-> TRUE, message |-> "overloaded", usage |-> Undefined,
   content |-> Undefined]

VendorUsage(input, output, cacheRead) ==
  [input_tokens |-> input, output_tokens |-> output,
   cache_read_input_tokens |-> cacheRead]

CompletionBody(usage, content) ==
  [json |-> TRUE, message |-> "", usage |-> usage, content |-> content]

TextBlock(text) == [type |-> "text", text |-> text]

CompletionBodies ==
  {CompletionBody(u, Some(<<TextBlock(Hi)>>)) :
     u \in {Undefined, Some(VendorUsage(Some(10), Some(3), Undefined)),
            Some(VendorUsage(Some(10), Undefined, Some(4))),
            Some(VendorUsage(Undefined, Some(3), Undefined))}}

Bodies == {NotJsonBody, ErrorBody} \cup CompletionBodies

\* The response a cancelled fetch resolves to: new Response(null, {status: 499}).
AbortedBody == [json |-> FALSE, text |-> ""]

\* The message of a non-success response: its JSON message, else its raw text.
VendorMessage(body) == IF body.json THEN body.message ELSE body.text

UpstreamError(status, body) ==
  [name |-> "UpstreamError", status |-> Some(status),
   message |-> VendorMessage(body)]

JsError(name, message) ==
  [name |-> name, status |-> Undefined, message |-> message]

\* streamSse(response): what the event source does with the response status.
SseOutcome(status) ==
  IF status = AbortedStatus THEN "empty"
  ELSE IF status # 200 THEN "throw"
  ELSE "events"

EMPTY_CHAT_COMPLETION == [empty |-> TRUE]

\* chatCompletionNonStream from response.json() on.
NonStreamCompletion(body) ==
  IF ~body.json
  THEN [result |-> Undefined,
        throw |-> Some(JsError("SyntaxError", "Unexpected token"))]
  ELSE IF body.content = Undefined \/ body.content[1] = <<>>
  THEN [result |-> Undefined,
        throw |-> Some(JsError("TypeError", "Cannot read properties of undefined"))]
  ELSE LET usage == body.usage
           input == IF usage = Undefined THEN Undefined ELSE usage[1].input_tokens
           output == IF usage = Undefined THEN Undefined ELSE usage[1].output_tokens
           cacheRead == IF usage = Undefined THEN Undefined
                        ELSE usage[1].cache_read_input_tokens
       IN [result |->
             Some([empty |-> FALSE,
                   usage |-> [total_tokens |-> Coalesce(input, 0) + Coalesce(output, 0),
                              completion_tokens |-> Coalesce(output, 0),
                              prompt_tokens |-> Coalesce(input, 0),
                              prompt_tokens_details |->
                                Some([cached_tokens |-> Coalesce(cacheRead, 0)])],
                   finish_reason |-> "stop",
                   content |-> body.content[1][1].text]),
           throw |-> Undefined]

\* A non-streaming call without the check of the aborted status.
NeverReturnsEmpty(status) == FALSE

\* Whether chatCompletionNonStream returns before reading the response body.
ReturnsEmpty(status) == status = AbortedStatus

\* ------------------------------------------------- the canonical request

\* A JavaScript string is a sequence of characters; a value that may be a
\* string or an array carries its type.
Str(chars) == [t |-> "string", v |-> chars]

Arr(items) == [t |-> "array", items |-> items]

IsArray(x) == x # Undefined /\ x[1].t = "array"

IsString(x) == x # Undefined /\ x[1].t = "string"

\* The truthiness of an optional string-or-array value.
Truthy(x) == x # Undefined /\ (x[1].t = "string" => x[1].v # <<>>)

WhiteSpace == {" ", "\n", "\t"}

RECURSIVE TrimStart(_)
TrimStart(chars) ==
  IF chars # <<>> /\ Head(chars) \in WhiteSpace THEN TrimStart(Tail(chars))
  ELSE chars

RECURSIVE TrimEnd(_)
TrimEnd(chars) ==
  IF chars # <<>> /\ chars[Len(chars)] \in WhiteSpace
  THEN TrimEnd(SubSeq(chars, 1, Len(chars) - 1))
  ELSE chars

\* String.prototype.trim
Trim(chars) == TrimEnd(TrimStart(chars))

\* x.trim() !== ""
NotBlank(chars) == Trim(chars) # <<>>

RECURSIVE JoinTexts(_)
JoinTexts(parts) ==
  IF parts = <<>> THEN <<>> ELSE Head(parts).text \o JoinTexts(Tail(parts))

\* url.split(",")[1]: the text between the first and the second comma.
RECURSIVE UpToComma(_)
UpToComma(chars) ==
  IF chars = <<>> \/ Head(chars) = "," THEN <<>>
  ELSE <<Head(chars)>> \o UpToComma(Tail(chars))

RECURSIVE SecondPiece(_)
SecondPiece(chars) ==
  IF chars = <<>> THEN Undefined
  ELSE IF Head(chars) = "," THEN Some(UpToComma(Tail(chars)))
  ELSE SecondPiece(Tail(chars))

Has(record, name) == name \in DOMAIN record

\* max_tokens sent when the request gives none.
DefaultMaxTokens == 4096

\* ------------------------------------------------------ _convertMessages

\* safeParseArgs(arguments): the parsed JSON, {} when it does not parse.
ValidArguments == {"{\"a\":1}"}

safeParseArgs(arguments) ==
  IF arguments \in ValidArguments THEN [json |-> arguments] ELSE [json |-> "{}"]

ConvertToolMessage(message) ==
  [role |-> "user",
   content |->
     <<[type |-> "tool_result", tool_use_id |-> message.tool_call_id,
        content |-> IF message.content.t = "string" THEN message.content.v
                    ELSE JoinTexts(message.content.items)]>>]

ConvertToolCall(toolCall) ==
  [type |-> "tool_use", id |-> toolCall.id, name |-> toolCall.function.name,
   input |-> safeParseArgs(toolCall.function.arguments)]

\* A translation that keeps the first tool call of an assistant message only.
ConvertAssistantFirstToolCall(message) ==
  [role |-> "assistant",
   content |-> IF message.tool_calls = <<>> THEN <<>>
               ELSE <<ConvertToolCall(message.tool_calls[1])>>]

ConvertAssistantToolCalls(message) ==
  [role |-> "assistant",
   content |-> [i \in 1..Len(message.tool_calls) |->
                  ConvertToolCall(message.tool_calls[i])]]

\* A text part is kept unless blank; any other part becomes an image block.
ConvertPart(part) ==
  IF part.type = "text"
  THEN (IF NotBlank(part.text) THEN Some(part) ELSE Undefined)
  ELSE Some([type |-> "image",
             source |-> [type |-> "base64", media_type |-> "image/jpeg",
                         data |-> SecondPiece(part.image_url.url)]])

RECURSIVE ConvertParts(_)
ConvertParts(parts) ==
  IF parts = <<>> THEN <<>>
  ELSE ConvertPart(Head(parts)) \o ConvertParts(Tail(parts))

ConvertMessage(message) ==
  IF message.role = "tool" THEN ConvertToolMessage(message)
  ELSE IF message.role = "assistant" /\ Has(message, "tool_calls")
  THEN ConvertAssistantToolCalls(message)
  ELSE IF message.content.t # "array" THEN message
  ELSE [message EXCEPT !.content = Arr(ConvertParts(message.content.items))]

_convertMessages(msgs) == [i \in 1..Len(msgs) |-> ConvertMessage(msgs[i])]

\* ----------------------------------------- _convertToCleanAnthropicBody

IsSystem(message) == message.role = "system"

NotSystem(message) == message.role # "system"

\* A translation that takes the last system message.
FindLastSystemContent(messages) ==
  LET found == SelectSeq(messages, IsSystem)
  IN IF found = <<>> THEN Undefined ELSE Some(found[Len(found)].content)

\* oaiBody.messages.find((msg) => msg.role === "system")?.content
FindSystemContent(messages) ==
  LET found == SelectSeq(messages, IsSystem)
  IN IF found = <<>> THEN Undefined ELSE Some(found[1].content)

\* The system field: a text block when the content is truthy, else the
\* content itself.
ConvertSystem(systemMessage) ==
  IF Truthy(systemMessage)
  THEN Some(Arr(<<[type |-> "text", text |-> systemMessage[1]]>>))
  ELSE systemMessage

ConvertStop(stop) ==
  IF IsArray(stop) THEN Some(SelectSeq(stop[1].items, NotBlank))
  ELSE IF IsString(stop) /\ NotBlank(stop[1].v) THEN Some(<<stop[1].v>>)
  ELSE Undefined

ConvertTools(tools) ==
  IF tools = Undefined THEN Undefined
  ELSE Some([i \in 1..Len(tools[1]) |->
               [name |-> tools[1][i].function.name,
                description |-> tools[1][i].function.description,
                input_schema |-> tools[1][i].function.parameters]])

\* tool_choice is a string ("auto", "none", "required") or names a function.
ConvertToolChoice(choice) ==
  IF choice = Undefined \/ (choice[1].t = "string" /\ choice[1].v = "")
  THEN Undefined
  ELSE Some([type |-> "tool",
             name |-> IF choice[1].t = "string" THEN choice[1].v
                      ELSE choice[1].function.name])

_convertToCleanAnthropicBody(oaiBody) ==
  [messages |-> _convertMessages(SelectSeq(oaiBody.messages, NotSystem)),
   system |-> ConvertSystem(FindSystemContent(oaiBody.messages)),
   top_p |-> oaiBody.top_p,
   temperature |-> oaiBody.temperature,
   max_tokens |-> Coalesce(oaiBody.max_tokens, DefaultMaxTokens),
   model |-> oaiBody.model,
   stop_sequences |-> ConvertStop(oaiBody.stop),
   stream |-> oaiBody.stream,
   tools |-> ConvertTools(oaiBody.tools),
   tool_choice |-> ConvertToolChoice(oaiBody.tool_choice)]

\* ---------------------------------------------------------- _convertBody

\* CACHING_STRATEGIES: the boundaries each named strategy marks for caching.
CACHING_STRATEGIES ==
  [none |-> {}, systemOnly |-> {"system"},
   systemAndTools |-> {"system", "tools"},
   optimized |-> {"system", "tools", "messages"}]

DefaultStrategy == "systemAndTools"

\* The strategy looked up for the configured name: undefined for a name the
\* table does not hold.
LookupStrategy(name) ==
  LET key == Coalesce(name, DefaultStrategy)
  IN IF key \in DOMAIN CACHING_STRATEGIES THEN Some(key) ELSE Undefined

\* cachingStrategy(cleanBody); calling undefined is a TypeError.
_convertBody(oaiBody, strategyName) ==
  LET cleanBody == _convertToCleanAnthropicBody(oaiBody)
      cachingStrategy == LookupStrategy(strategyName)
  IN IF cachingStrategy = Undefined
     THEN [body |-> Undefined,
           throw |-> Some(JsError("TypeError", "cachingStrategy is not a function"))]
     ELSE [body |-> Some([clean |-> cleanBody, strategy |-> cachingStrategy[1],
                          cache_control |-> CACHING_STRATEGIES[cachingStrategy[1]]]),
           throw |-> Undefined]

\* ----------------------------------------------- the requests explored

\* The longest message list explored.
MaxMessages == 3

SystemMessage(text) == [role |-> "system", content |-> Str(text)]

UserMessage(text) == [role |-> "user", content |-> Str(text)]

Hello == <<"Hello">>

\* An image part: a data URL of the image's mime type and base64 payload.
ImagePart(mime, payload) ==
  [type |-> "image_url",
   image_url |-> [url |-> <<"data:", mime, ";base64", ",", payload>>]]

TextPart(text) == [type |-> "text", text |-> text]

PartsMessage ==
  [role |-> "user",
   content |-> Arr(<<TextPart(<<" ">>), ImagePart("image/png", "AAAA"),
                     TextPart(<<"see">>), ImagePart("image/jpeg", "BBBB"),
                     TextPart(<<>>)>>)]

ToolCall(id, name, arguments) ==
  [id |-> id, type |-> "function",
   function |-> [name |-> name, arguments |-> arguments]]

AssistantToolCalls ==
  [role |-> "assistant", content |-> Str(<<>>),
   tool_calls |-> <<ToolCall("t1", "f", "{\"a\":1}"), ToolCall("t2", "g", "{oops")>>]

AssistantMessage(text) == [role |-> "assistant", content |-> Str(text)]

ToolMessage == [role |-> "tool", tool_call_id |-> "t1", content |-> Str(<<"42">>)]

MessageAlphabet ==
  {SystemMessage(<<"A">>), SystemMessage(<<"B">>), SystemMessage(<<>>),
   UserMessage(Hello),
   PartsMessage, AssistantToolCalls, AssistantMessage(<<"ok">>), ToolMessage}

RECURSIVE ListsUpTo(_, _)
ListsUpTo(S, n) ==
  IF n = 0 THEN {<<>>}
  ELSE LET shorter == ListsUpTo(S, n - 1)
       IN shorter \cup {Append(l, x) : l \in shorter, x \in S}

MessageLists == ListsUpTo(MessageAlphabet, MaxMessages)

\* The stop inputs: unset, a string, a list.
Stops ==
  {Undefined, Some(Str(<<>>)), Some(Str(<<" ">>)), Some(Str(<<"END">>)),
   Some(Str(<<" ", "x">>)), Some(Arr(<<>>)), Some(Arr(<<<<>>>>)),
   Some(Arr(<<<<" ">>, <<>>>>)), Some(Arr(<<<<"a">>, <<>>, <<"b">>>>)),
   Some(Arr(<<<<"b">>, <<" ", "\n">>, <<"a">>>>))}

Tool(name) ==
  [type |-> "function",
   function |-> [name |-> name, description |-> "a tool", parameters |-> "schema"]]

\* tool_choice naming a function, and tool_choice as a string.
ChooseFunction(name) == Some([t |-> "object", function |-> [name |-> name]])

ChooseString(word) == Some([t |-> "string", v |-> word])

\* tools and tool_choice: <<tools, tool_choice>>.
ToolSettings ==
  {<<Undefined, Undefined>>,
   <<Some(<<Tool("f"), Tool("g")>>), Undefined>>,
   <<Some(<<Tool("f"), Tool("g")>>), ChooseFunction("g")>>,
   <<Some(<<Tool("f")>>), ChooseFunction("g")>>,
   <<Undefined, ChooseFunction("f")>>,
   <<Some(<<Tool("f")>>), ChooseString("auto")>>,
   <<Some(<<Tool("f")>>), ChooseString("none")>>,
   <<Some(<<Tool("f")>>), ChooseString("required")>>,
   <<Some(<<Tool("f")>>), ChooseString("")>>}

Request(messages, stop, toolSetting, maxTokens) ==
  [model |-> "claude", stream |-> Undefined, top_p |-> Undefined,
   temperature |-> Undefined, max_tokens |-> maxTokens, messages |-> messages,
   stop |-> stop, tools |-> toolSetting[1], tool_choice |-> toolSetting[2]]

\* The request of the worked example: one system message, one user message.
ExampleMessages == <<SystemMessage(<<"Be brief">>), UserMessage(Hello)>>

ExampleRequest ==
  Request(ExampleMessages, Undefined, <<Undefined, Undefined>>, Undefined)

Requests ==
  {Request(m, Undefined, <<Undefined, Undefined>>, Undefined) : m \in MessageLists}
    \cup {Request(ExampleMessages, st, ts, mt) :
            st \in Stops, ts \in ToolSettings, mt \in {Undefined, Some(100)}}

Config(apiKey, apiBase, cachingStrategy) ==
  [provider |-> "anthropic", apiKey |-> apiKey, apiBase |-> apiBase,
   cachingStrategy |-> cachingStrategy, requestOptions |-> [timeout |-> 30]]

DefaultConfig == Config("k1", Undefined, Undefined)

\* The configurations a client is constructed from.
ProviderConfig(provider, apiBase, cachingStrategy) ==
  [Config("k1", apiBase, cachingStrategy) EXCEPT !.provider = provider]

DedicatedProviders ==
  {"openai", "azure", "bedrock", "cohere", "anthropic", "gemini", "jina",
   "deepseek", "moonshot", "relace", "inception", "watsonx", "vertexai",
   "llamastack", "continue-proxy"}

OpenAICompatibleProviders ==
  {"xAI", "voyage", "mistral", "deepinfra", "vllm", "groq", "sambanova",
   "text-gen-webui", "openrouter", "cerebras", "kindo", "msty", "nvidia",
   "ovhcloud", "scaleway", "fireworks", "together", "ncompass", "novita",
   "nebius", "function-network", "llama.cpp", "llamafile", "lmstudio", "ollama"}

RegisteredProviders == DedicatedProviders \cup OpenAICompatibleProviders \cup {"mock"}

UnknownProviders == {"unknown-provider", "OpenAI", "xai", ""}

Providers == RegisteredProviders \cup UnknownProviders

ApiBases ==
  {Undefined, Some(<<"https://proxy.example/v1">>),
   Some(<<"https://proxy.example/v1", "/">>), Some(<<>>)}

ConfiguredStrategies == {Undefined, Some("none"), Some("bogus")}

Configs ==
  {ProviderConfig(p, b, s) : p \in Providers, b \in ApiBases,
                             s \in ConfiguredStrategies}

StrategyNames == {Undefined, Some("none"), Some("systemOnly"), Some("optimized"),
                  Some("bogus")}

\* ------------------------------------------------------------ the client

AnthropicDefaultApiBase == <<"https://api.anthropic.com/v1", "/">>

\* apiBase.endsWith("/"), an apiBase being a sequence of pieces of text none
\* of which ends with "/" but the piece "/" itself.
EndsWithSlash(text) == text # <<>> /\ text[Len(text)] = "/"

\* new AnthropicApi(config): the client keeps the config object it is given
\* and its own apiBase.
\* A constructor that takes the apiBase as configured.
AnthropicApiKeepsApiBase(config) ==
  [class |-> "AnthropicApi", keepsConfigObject |-> TRUE, config |-> config,
   apiBase |-> Coalesce(config.apiBase, AnthropicDefaultApiBase)]

AnthropicApi(config) ==
  LET apiBase == Coalesce(config.apiBase, AnthropicDefaultApiBase)
  IN [class |-> "AnthropicApi", keepsConfigObject |-> TRUE, config |-> config,
      apiBase |-> IF EndsWithSlash(apiBase) THEN apiBase
                  ELSE Append(apiBase, "/")]

\* new URL("messages", this.apiBase), this.apiBase ending with "/".
MessagesUrl(apiBase) == Append(apiBase, "messages")

\* ----------------------------------------------------- constructLlmApi

\* A URL is its text up to a final "/" and that "/", when it has one.
Slashed(text) == <<text, "/">>

Unslashed(text) == <<text>>

\* The providers with a client class of their own, and that class.
DedicatedClass(provider) ==
  CASE provider = "openai" -> "OpenAIApi"
    [] provider = "azure" -> "AzureApi"
    [] provider = "bedrock" -> "BedrockApi"
    [] provider = "cohere" -> "CohereApi"
    [] provider = "anthropic" -> "AnthropicApi"
    [] provider = "gemini" -> "GeminiApi"
    [] provider = "jina" -> "JinaApi"
    [] provider = "deepseek" -> "DeepSeekApi"
    [] provider = "moonshot" -> "MoonshotApi"
    [] provider = "relace" -> "RelaceApi"
    [] provider = "inception" -> "InceptionApi"
    [] provider = "watsonx" -> "WatsonXApi"
    [] provider = "vertexai" -> "VertexAIApi"
    [] provider = "llamastack" -> "LlamastackApi"
    [] provider = "continue-proxy" -> "ContinueProxyApi"
    [] OTHER -> "none"

\* The providers served by the generic client, and the apiBase each defaults to.
OpenAICompatibleDefault(provider) ==
  CASE provider = "xAI" -> Some(Slashed("https://api.x.ai/v1"))
    [] provider = "voyage" -> Some(Slashed("https://api.voyageai.com/v1"))
    [] provider = "mistral" -> Some(Slashed("https://api.mistral.ai/v1"))
    [] provider = "deepinfra" -> Some(Slashed("https://api.deepinfra.com/v1/openai"))
    [] provider = "vllm" -> Some(Slashed("http://localhost:8000/v1"))
    [] provider = "groq" -> Some(Slashed("https://api.groq.com/openai/v1"))
    [] provider = "sambanova" -> Some(Slashed("https://api.sambanova.ai/v1"))
    [] provider = "text-gen-webui" -> Some(Slashed("http://127.0.0.1:5000/v1"))
    [] provider = "openrouter" -> Some(Slashed("https://openrouter.ai/api/v1"))
    [] provider = "cerebras" -> Some(Slashed("https://api.cerebras.ai/v1"))
    [] provider = "kindo" -> Some(Slashed("https://llm.kindo.ai/v1"))
    [] provider = "msty" -> Some(Unslashed("http://localhost:10000"))
    [] provider = "nvidia" -> Some(Slashed("https://integrate.api.nvidia.com/v1"))
    [] provider = "ovhcloud" ->
         Some(Slashed("https://oai.endpoints.kepler.ai.cloud.ovh.net/v1"))
    [] provider = "scaleway" -> Some(Slashed("https://api.scaleway.ai/v1"))
    [] provider = "fireworks" -> Some(Slashed("https://api.fireworks.ai/inference/v1"))
    [] provider = "together" -> Some(Slashed("https://api.together.xyz/v1"))
    [] provider = "ncompass" -> Some(Unslashed("https://api.ncompass.tech/v1"))
    [] provider = "novita" -> Some(Unslashed("https://api.novita.ai/v3/openai"))
    [] provider = "nebius" -> Some(Slashed("https://api.studio.nebius.ai/v1"))
    [] provider = "function-network" -> Some(Slashed("https://api.function.network/v1"))
    [] provider = "llama.cpp" -> Some(Slashed("http://localhost:8000"))
    [] provider = "llamafile" -> Some(Slashed("http://localhost:8000"))
    [] provider = "lmstudio" -> Some(Slashed("http://localhost:1234"))
    [] provider = "ollama" -> Some(Slashed("http://localhost:11434/v1"))
    [] OTHER -> Undefined

\* new X(config) for a client class whose constructor is given the caller's
\* config object.
NewClient(class, config) ==
  [class |-> class, keepsConfigObject |-> TRUE, config |-> config]

\* new OpenAIApi({...config, apiBase: ...}): the client is given an object
\* of its own.
NewClientOfCopy(class, config) ==
  [class |-> class, keepsConfigObject |-> FALSE, config |-> config]

\* A generic client for which the registry default wins over the config.
openAICompatibleDefaultWins(apiBase, config) ==
  NewClientOfCopy("OpenAIApi", [config EXCEPT !.apiBase = Some(apiBase)])

openAICompatible(apiBase, config) ==
  NewClientOfCopy("OpenAIApi",
                  [config EXCEPT !.apiBase = Some(Coalesce(config.apiBase, apiBase))])

\* new MockApi()
MockApi == [class |-> "MockApi", keepsConfigObject |-> FALSE]

\* The default case of a factory that falls back to the generic client.
DefaultCaseFallsBack(config) == Some(NewClient("OpenAIApi", config))

\* default: return undefined
DefaultCase(config) == Undefined

constructLlmApi(config) ==
  IF config.provider = "anthropic" THEN Some(AnthropicApi(config))
  ELSE IF DedicatedClass(config.provider) # "none"
  THEN Some(NewClient(DedicatedClass(config.provider), config))
  ELSE IF OpenAICompatibleDefault(config.provider) # Undefined
  THEN Some(openAICompatible(OpenAICompatibleDefault(config.provider)[1], config))
  ELSE IF config.provider = "mock" THEN Some(MockApi)
  ELSE DefaultCase(config)

\* ------------------------------------------------------------- the state

Calls == {1, 2}

\* Decoder state kept on the client instance, shared by its calls.
SharedLocals(c) == 1

\* The frame holding the decoder locals of call c: each run of the generator
\* has its own.
Locals(c) == c

\* ------------------------------------- the methods without an implementation

UnsupportedMethods ==
  {"completionNonStream", "completionStream", "fimStream", "embed", "rerank", "list"}

\* How the body of a method is run: an async method returns a promise that
\* rejects when the body throws, an async generator throws from its first
\* next(), a plain method throws to its caller.
MethodForm(method) ==
  CASE method \in {"completionNonStream", "embed", "rerank"} -> "async"
    [] method \in {"completionStream", "fimStream"} -> "async generator"
    [] method = "list" -> "plain"

NotCalled == [called |-> FALSE]

\* throw new Error("Method not implemented.")
NotImplemented(method) ==
  [called |-> TRUE,
   error |-> JsError("Error", "Method not implemented."),
   surfaces |-> CASE MethodForm(method) = "async" -> "rejected promise"
                  [] MethodForm(method) = "async generator" -> "first element"
                  [] OTHER -> "synchronous throw"]

\* ------------------------------------------------- loading the config

\* The longest list of chat model descriptions explored.
MaxDescriptions == 2

NotLoading == [pc |-> "none"]

\* {...a, ...b}: the keys of both, b's value where both have the key.
Spread(a, b) ==
  [k \in (DOMAIN a) \cup (DOMAIN b) |-> IF k \in DOMAIN b THEN b[k] ELSE a[k]]

\* Request options: the keys set, each with the value given at that level.
Options(keys, value) == [k \in keys |-> value]

\* A model description with a title (a provider's model) or without (a
\* custom LLM).
Description(kind, provider, model, keys) ==
  [kind |-> kind, provider |-> provider, model |-> model,
   requestOptions |-> Options(keys, "of the model")]

\* The providers llmFromDescription has a class for.
LlmProviders == {"ollama", "free-trial"}

\* llmFromDescription(desc, ...): the LLM of the provider's class, undefined
\* when no class has the provider's name.
llmFromDescription(desc, i, model, title) ==
  IF desc.provider \notin LlmProviders THEN Undefined
  ELSE Some([title |-> title, model |-> model, providerName |-> desc.provider,
             requestOptions |-> desc.requestOptions, roles |-> Undefined,
             desc |-> i])

\* new CustomLLMClass({...desc, options: {...desc.options, model}})
CustomLLM(desc, i, model) ==
  [title |-> "custom", model |-> model, providerName |-> "custom",
   requestOptions |-> desc.requestOptions, roles |-> Undefined, desc |-> i]

\* What llm.listModels() came to: it threw, or the names it returned.
ListingFails == [ok |-> FALSE, names |-> <<>>]

Listed(names) == [ok |-> TRUE, names |-> names]

NotListed == [ok |-> FALSE, names |-> <<"not asked">>]

Listings == {ListingFails, Listed(<<>>), Listed(<<"a">>), Listed(<<"a", "b">>)}

RECURSIVE Defined(_)
\* detectedModels.filter((x) => typeof x !== "undefined")
Defined(items) ==
  IF items = <<>> THEN <<>> ELSE Head(items) \o Defined(Tail(items))

\* models.push(...models) inside the try block of the custom branch: the
\* const models declared there hides the list of the enclosing function,
\* which is left as it was.
PushDetectedCustom(models, detected) == models

\* The callback of config.models.map for description i.
DescribeChatModel(models, desc, i, listing) ==
  IF desc.kind = "described"
  THEN LET llm == llmFromDescription(desc, i, desc.model, "title")
       IN IF llm = Undefined THEN models
          ELSE IF llm[1].model = "AUTODETECT"
          THEN (IF ~listing.ok THEN models
                ELSE models \o Defined([n \in 1..Len(listing.names) |->
                       llmFromDescription(desc, i, listing.names[n],
                                          listing.names[n])]))
          ELSE Append(models, llm[1])
  ELSE LET llm == CustomLLM(desc, i, desc.model)
       IN IF llm.model = "AUTODETECT"
          THEN (IF ~listing.ok THEN models
                ELSE PushDetectedCustom(models,
                       [n \in 1..Len(listing.names) |->
                          CustomLLM(desc, i, listing.names[n])]))
          ELSE Append(models, llm)

\* model.requestOptions = {...model.requestOptions, ...config.requestOptions}
MergeRequestOptions(modelOptions, configOptions) == Spread(modelOptions, configOptions)

applyRequestOptionsToModels(models, config, roles) ==
  [m \in 1..Len(models) |->
     [models[m] EXCEPT
        !.requestOptions = MergeRequestOptions(@, config.requestOptions),
        !.roles = IF roles # Undefined THEN Some(Coalesce(@, roles[1])) ELSE @]]

NotFreeTrial(model) == model.providerName # "free-trial"

ChatRoles == <<"chat", "apply", "edit", "summarize">>

\* The callback of autocompleteConfigs.map for description i.
DescribeTabModel(models, desc, i) ==
  IF desc.kind = "described"
  THEN LET llm == llmFromDescription(desc, i, desc.model, "title")
       IN IF llm # Undefined /\ NotFreeTrial(llm[1]) THEN Append(models, llm[1])
          ELSE models
  ELSE Append(models, CustomLLM(desc, i, desc.model))

\* The configs loaded.
OptionKeys == {{}, {"timeout"}, {"timeout", "proxy"}}

CoreDescriptions ==
  {Description(kind, "ollama", model, {"timeout"}) :
     kind \in {"described", "custom"}, model \in {"AUTODETECT", "llama3"}}

OtherDescriptions ==
  {Description("described", provider, "llama3", keys) :
     provider \in {"ollama", "free-trial", "no-such-provider"}, keys \in OptionKeys}
    \cup {Description("custom", "ollama", "llama3", keys) : keys \in OptionKeys}

LoadedConfig(models, tab, keys) ==
  [models |-> models, tabAutocompleteModel |-> tab,
   requestOptions |-> Options(keys, "of the config")]

LoadedConfigs ==
  {LoadedConfig(models, <<>>, {"timeout"}) :
     models \in ListsUpTo(CoreDescriptions, MaxDescriptions)}
    \cup {LoadedConfig(<<m>>, <<t>>, keys) :
            m \in OtherDescriptions, t \in OtherDescriptions, keys \in OptionKeys}

\* ------------------------------------------- oneper: the cron update check

\* The run ids of the successful main builds that may complete.
MaxRuns == 3

RunIds == 1..MaxRuns

\* setup_cron's interval when none is given.
DefaultInterval == 10

\* The intervals given with --interval: positive integers.
Intervals == {5, 30}

IntervalOptions == {Undefined} \cup {Some(interval) : interval \in Intervals}

\* detect_os: the platform of the machine, or none that oneper supports.
Platforms == {"macos", "linux", "unsupported"}

\* artifact_suffix of install_from_main, none for an unknown platform.
ArtifactSuffix(platform) ==
  CASE platform = "macos" -> Some("macOS")
    [] platform = "linux" -> Some("Linux")
    [] OTHER -> Undefined

\* A crontab line: its schedule and the words of its command.
CronLine(interval) ==
  [every |-> interval,
   command |-> <<"oneper-cron.sh", ">>", "oneper-cron.log", "2>&1">>]

\* Lines of other programs: a backup job, and a watchdog of the user's that
\* tests the cron script.
BackupLine == [every |-> 60, command |-> <<"backup.sh">>]

WatchdogLine == [every |-> 15, command |-> <<"test", "-x", "oneper-cron.sh">>]

\* grep "oneper-cron.sh": the line holds the text.
Mentions(line) == \E i \in 1..Len(line.command) : line.command[i] = "oneper-cron.sh"

NotMentions(line) == ~Mentions(line)

\* crontab -l | grep -q "oneper-cron.sh"
CronJobExists(lines) == \E i \in 1..Len(lines) : Mentions(lines[i])

\* crontab -l | grep -v "oneper-cron.sh" | crontab -
WithoutCronJob(lines) == SelectSeq(lines, NotMentions)

\* setup_cron's crontab: the old job removed if there is one, the new line
\* added at the end.
CrontabAfterSetup(lines, interval) ==
  Append(IF CronJobExists(lines) THEN WithoutCronJob(lines) ELSE lines,
         CronLine(interval))

\* remove_cron's crontab.
CrontabAfterRemove(lines) ==
  IF CronJobExists(lines) THEN WithoutCronJob(lines) ELSE lines

\* The crontabs the user may have before oneper is first used.
Crontabs ==
  {<<>>, <<BackupLine>>, <<WatchdogLine, BackupLine>>,
   <<CronLine(5), BackupLine, CronLine(30)>>}

\* No run of oneper --cron-check yet.
NoCheck ==
  [pc |-> "none", current_run_id |-> Undefined, last_run_id |-> Undefined,
   run_id |-> Undefined, exit |-> Undefined, downloaded |-> FALSE]

\* A comparison that holds of any two run ids.
NewBuildAlways(current_run_id, last_run_id) == TRUE

\* [ "$current_run_id" != "$last_run_id" ], last_run_id empty without a file.
NewBuildDetected(current_run_id, last_run_id) == Some(current_run_id) # last_run_id

\* A file written whether the install succeeded or not.
LastRunFileAlwaysWritten(ok, current_run_id, file) == Some(current_run_id)

\* last_installed_run after install_from_main ended: written on success only.
LastRunFileAfterInstall(ok, current_run_id, file) ==
  IF ok THEN Some(current_run_id) ELSE file

VARIABLES
  pc,            \* per call: idle, fetching, streaming, done, failed
  kind,          \* per call: none, stream, nonstream
  cancelled,     \* per call: the caller's AbortSignal has fired
  status,        \* per call: the status of the HTTP response, once it arrived
  response,      \* per call: the body of the HTTP response, once it arrived
  bodyRead,      \* per call: the response body has been read
  wire,          \* per call: the vendor events delivered so far
  frame,         \* per frame: lastToolUseId, lastToolUseName, usage
  out,           \* per call: the chunks yielded so far
  err,           \* per call: the error the call failed with
  result,        \* per call: the value chatCompletionNonStream resolved to
  httpRequests,  \* per call: the HTTP requests issued
  posted,        \* per call: the HTTP request issued
  unsupported,   \* per method without an implementation: how its call ended
  oaiBody,       \* the request object the caller passes to its calls
  callerConfig,  \* the config object the caller built the client from
  client,        \* the client, once constructed
  constructedWith, \* the config as it was when the client was constructed
  load,          \* the run of intermediateToFinalConfig, if any
  latestRun,     \* oneper: the newest successful main-build run, if any
  crontab,       \* oneper: the lines of the user's crontab
  cronScript,    \* oneper: $ONEPER_DIR/oneper-cron.sh exists
  logFile,       \* oneper: $ONEPER_DIR/oneper-cron.log exists
  lastInstalledRun, \* oneper: the content of $ONEPER_DIR/last_installed_run
  installedBuild,   \* oneper: the run whose VSIX VS Code has installed
  check,         \* oneper: the run of oneper --cron-check in progress or ended
  prevCheck      \* oneper: the run of oneper --cron-check before that one

clientVars == <<oaiBody, callerConfig, client, constructedWith>>

oneperVars ==
  <<latestRun, crontab, cronScript, logFile, lastInstalledRun, installedBuild,
    check, prevCheck>>

callVars ==
  <<pc, kind, cancelled, status, response, bodyRead, wire, frame, out, err,
    result, httpRequests, posted, unsupported>>

vars ==
  <<pc, kind, cancelled, status, response, bodyRead, wire, frame, out, err,
    result, httpRequests, posted, unsupported, oaiBody, callerConfig, client,
    constructedWith, load, oneperVars>>

\* No call made yet.
InitCalls ==
  /\ pc = [c \in Calls |-> "idle"]
  /\ kind = [c \in Calls |-> "none"]
  /\ cancelled = [c \in Calls |-> FALSE]
  /\ status = [c \in Calls |-> Undefined]
  /\ response = [c \in Calls |-> Undefined]
  /\ bodyRead = [c \in Calls |-> FALSE]
  /\ wire = [c \in Calls |-> <<>>]
  /\ frame = [c \in Calls |-> InitLocals]
  /\ out = [c \in Calls |-> <<>>]
  /\ err = [c \in Calls |-> Undefined]
  /\ result = [c \in Calls |-> Undefined]
  /\ httpRequests = [c \in Calls |-> 0]
  /\ posted = [c \in Calls |-> Undefined]
  /\ unsupported = [m \in UnsupportedMethods |-> NotCalled]

\* The client as constructed from config, the caller holding request.
Constructed(config, request) ==
  /\ callerConfig = Some(config)
  /\ constructedWith = Some(config)
  /\ client = Some(AnthropicApi(config))
  /\ oaiBody = request

\* No build seen, an empty crontab, nothing of oneper on disk, no check run.
OneperAtRest ==
  /\ latestRun = Undefined
  /\ crontab = <<>>
  /\ cronScript = FALSE
  /\ logFile = FALSE
  /\ lastInstalledRun = Undefined
  /\ installedBuild = Undefined
  /\ check = NoCheck
  /\ prevCheck = NoCheck

Init ==
  /\ InitCalls
  /\ Constructed(DefaultConfig, ExampleRequest)
  /\ load = NotLoading
  /\ OneperAtRest

\* this.config: the object the constructor was given, as it is now, or the
\* client's own copy.
ClientConfig ==
  IF client[1].keepsConfigObject THEN callerConfig[1] ELSE client[1].config

\* A translation that removes the system messages from the request's own list.
RequestAfterTranslationSpliced(request) ==
  [request EXCEPT !.messages = SelectSeq(@, NotSystem)]

\* The request object after its translation: find, filter and map build new
\* arrays, and nothing is assigned to the request or to its messages.
RequestAfterTranslation(request) == request

\* chatCompletionStream / chatCompletionNonStream up to the await of customFetch.
StartCall(c, k) ==
  /\ pc[c] = "idle"
  /\ client # Undefined
  /\ client[1].class = "AnthropicApi"
  /\ kind' = [kind EXCEPT ![c] = k]
  /\ LET converted == _convertBody(oaiBody, ClientConfig.cachingStrategy)
     IN IF converted.throw # Undefined
        THEN /\ pc' = [pc EXCEPT ![c] = "failed"]
             /\ err' = [err EXCEPT ![c] = converted.throw]
             /\ UNCHANGED <<httpRequests, posted>>
        ELSE /\ pc' = [pc EXCEPT ![c] = "fetching"]
             /\ httpRequests' = [httpRequests EXCEPT ![c] = @ + 1]
             /\ posted' = [posted EXCEPT ![c] =
                           Some([url |-> MessagesUrl(client[1].apiBase),
                                 apiKey |-> ClientConfig.apiKey,
                                 requestOptions |-> ClientConfig.requestOptions,
                                 body |-> converted.body[1]])]
             /\ UNCHANGED err
  /\ oaiBody' = RequestAfterTranslation(oaiBody)
  /\ UNCHANGED <<cancelled, status, response, bodyRead, wire, frame, out, result,
                 unsupported, callerConfig, client, constructedWith, load, oneperVars>>

StartStream(c) == StartCall(c, "stream")

StartNonStream(c) == StartCall(c, "nonstream")

\* The caller's signal fires while the request is in flight.
Cancel(c) ==
  /\ pc[c] = "fetching"
  /\ ~cancelled[c]
  /\ cancelled' = [cancelled EXCEPT ![c] = TRUE]
  /\ UNCHANGED <<pc, kind, status, response, bodyRead, wire, frame, out, err,
                 result, httpRequests, posted, unsupported, clientVars, load, oneperVars>>

\* What customFetch may resolve to: the sentinel response once the signal has fired.
Answers(c) ==
  IF cancelled[c] THEN {<<AbortedStatus, AbortedBody>>}
  ELSE (Statuses \X Bodies)

\* A non-streaming call that issues the request again after a non-success
\* response.
NonStreamResponseRetries(c, st, body) ==
  /\ pc[c] = "fetching"
  /\ kind[c] = "nonstream"
  /\ <<st, body>> \in Answers(c)
  /\ IF st \notin {200, AbortedStatus} /\ httpRequests[c] < 2
     THEN /\ httpRequests' = [httpRequests EXCEPT ![c] = @ + 1]
          /\ UNCHANGED <<pc, status, response, result, bodyRead, err>>
     ELSE /\ status' = [status EXCEPT ![c] = Some(st)]
          /\ response' = [response EXCEPT ![c] = Some(body)]
          /\ UNCHANGED httpRequests
          /\ IF ReturnsEmpty(st)
             THEN /\ result' = [result EXCEPT ![c] = Some(EMPTY_CHAT_COMPLETION)]
                  /\ pc' = [pc EXCEPT ![c] = "done"]
                  /\ UNCHANGED <<bodyRead, err>>
             ELSE LET r == NonStreamCompletion(body)
                  IN /\ bodyRead' = [bodyRead EXCEPT ![c] = TRUE]
                     /\ result' = [result EXCEPT ![c] = r.result]
                     /\ err' = [err EXCEPT ![c] = r.throw]
                     /\ pc' = [pc EXCEPT ![c] =
                                 IF r.throw = Undefined THEN "done" ELSE "failed"]
  /\ UNCHANGED <<kind, cancelled, wire, frame, out, posted, unsupported, clientVars, load, oneperVars>>

\* chatCompletionNonStream from the response on.
NonStreamResponse(c, st, body) ==
  /\ pc[c] = "fetching"
  /\ kind[c] = "nonstream"
  /\ <<st, body>> \in Answers(c)
  /\ status' = [status EXCEPT ![c] = Some(st)]
  /\ response' = [response EXCEPT ![c] = Some(body)]
  /\ IF ReturnsEmpty(st)
     THEN /\ result' = [result EXCEPT ![c] = Some(EMPTY_CHAT_COMPLETION)]
          /\ pc' = [pc EXCEPT ![c] = "done"]
          /\ UNCHANGED <<bodyRead, err>>
     ELSE LET r == NonStreamCompletion(body)
          IN /\ bodyRead' = [bodyRead EXCEPT ![c] = TRUE]
             /\ result' = [result EXCEPT ![c] = r.result]
             /\ err' = [err EXCEPT ![c] = r.throw]
             /\ pc' = [pc EXCEPT ![c] = IF r.throw = Undefined THEN "done" ELSE "failed"]
  /\ UNCHANGED <<kind, cancelled, wire, frame, out, httpRequests, posted, unsupported, clientVars, load, oneperVars>>

\* A generator that ends without the usage chunk.
AfterLoopYieldsNothing(loc) == <<>>

\* The chunk handleStreamResponse yields after its loop.
AfterLoop(loc) == <<usageChatChunk(FinalUsage(loc.usage))>>

\* chatCompletionStream from the response on: handleStreamResponse sets up its
\* locals and asks streamSse for the first event.
StreamResponse(c, st, body) ==
  /\ pc[c] = "fetching"
  /\ kind[c] = "stream"
  /\ <<st, body>> \in Answers(c)
  /\ status' = [status EXCEPT ![c] = Some(st)]
  /\ response' = [response EXCEPT ![c] = Some(body)]
  /\ frame' = [frame EXCEPT ![Locals(c)] = InitLocals]
  /\ CASE SseOutcome(st) = "empty" ->
            /\ out' = [out EXCEPT ![c] = @ \o AfterLoop(InitLocals)]
            /\ pc' = [pc EXCEPT ![c] = "done"]
            /\ UNCHANGED <<err, bodyRead>>
       [] SseOutcome(st) = "throw" ->
            /\ err' = [err EXCEPT ![c] = Some(UpstreamError(st, body))]
            /\ pc' = [pc EXCEPT ![c] = "failed"]
            /\ bodyRead' = [bodyRead EXCEPT ![c] = TRUE]
            /\ UNCHANGED out
       [] OTHER ->
            /\ pc' = [pc EXCEPT ![c] = "streaming"]
            /\ bodyRead' = [bodyRead EXCEPT ![c] = TRUE]
            /\ UNCHANGED <<out, err>>
  /\ UNCHANGED <<kind, cancelled, wire, result, httpRequests, posted, unsupported, clientVars, load, oneperVars>>

\* One event of the vendor stream reaches the for-await loop.
VendorEvent(c, value) ==
  /\ pc[c] = "streaming"
  /\ wire' = [wire EXCEPT ![c] = Append(@, value)]
  /\ LET r == Handle(frame[Locals(c)], value)
     IN /\ frame' = [frame EXCEPT ![Locals(c)] = r.loc]
        /\ IF r.throw # Undefined
           THEN /\ err' = [err EXCEPT ![c] = Some(JsError("Error", r.throw[1]))]
                /\ pc' = [pc EXCEPT ![c] = "failed"]
                /\ UNCHANGED out
           ELSE /\ out' = [out EXCEPT ![c] = @ \o r.yield]
                /\ UNCHANGED <<err, pc>>
  /\ UNCHANGED <<kind, cancelled, status, response, bodyRead, result, httpRequests,
                 posted, unsupported, clientVars, load, oneperVars>>

\* The vendor stream ends: the loop is left and the usage chunk yielded.
EndOfStream(c) ==
  /\ pc[c] = "streaming"
  /\ out' = [out EXCEPT ![c] = @ \o AfterLoop(frame[Locals(c)])]
  /\ pc' = [pc EXCEPT ![c] = "done"]
  /\ UNCHANGED <<kind, cancelled, status, response, bodyRead, wire, frame, err,
                 result, httpRequests, posted, unsupported, clientVars, load, oneperVars>>

\* The streams explored: every stream of at most MaxEvents events, and the
\* worked example.
Explored(events) ==
  Len(events) <= MaxEvents \/ IsPrefix(events, ExampleStream)

\* One call at a time.
Next ==
  \/ StartStream(1)
  \/ StartNonStream(1)
  \/ Cancel(1)
  \/ \E st \in Statuses, body \in Bodies \cup {AbortedBody} : NonStreamResponse(1, st, body)
  \/ \E st \in Statuses, body \in Bodies \cup {AbortedBody} : StreamResponse(1, st, body)
  \/ \E value \in Events :
       Explored(Append(wire[1], value)) /\ VendorEvent(1, value)
  \/ EndOfStream(1)

Spec == Init /\ [][Next]_vars

\* Two streaming calls on one client, their events interleaved.
NextConcurrent ==
  \E c \in Calls :
    \/ StartStream(c)
    \/ StreamResponse(c, 200, ErrorBody)
    \/ \E value \in ConcEvents :
         Len(wire[c]) < MaxConcEvents /\ VendorEvent(c, value)
    \/ EndOfStream(c)

SpecConcurrent == Init /\ [][NextConcurrent]_vars

\* One streaming call whose stream is made of content-block events.
NextBlocks ==
  \/ StartStream(1)
  \/ StreamResponse(1, 200, ErrorBody)
  \/ \E value \in BlockEvents :
       Len(wire[1]) < MaxBlockEvents /\ VendorEvent(1, value)
  \/ EndOfStream(1)

SpecBlocks == Init /\ [][NextBlocks]_vars

\* The caller's config object after constructLlmApi(config): the factory and
\* the constructors assign to nothing of it.
ConfigAfterConstruct(config) == config

\* constructLlmApi(config)
Construct(config) ==
  /\ constructedWith = Undefined
  /\ constructedWith' = Some(config)
  /\ client' = constructLlmApi(config)
  /\ callerConfig' = Some(ConfigAfterConstruct(config))
  /\ UNCHANGED <<callVars, oaiBody, load, oneperVars>>

\* The fields of the config object the caller may later assign to, and the
\* value it assigns.
Assignments == {"apiKey", "apiBase", "cachingStrategy", "requestOptions"}

Assign(config, field) ==
  CASE field = "apiKey" -> [config EXCEPT !.apiKey = "k2"]
    [] field = "apiBase" ->
         [config EXCEPT !.apiBase = Some(<<"https://other.example", "/">>)]
    [] field = "cachingStrategy" ->
         [config EXCEPT !.cachingStrategy = Some("systemOnly")]
    [] field = "requestOptions" ->
         [config EXCEPT !.requestOptions = [timeout |-> 1]]

\* The caller assigns to a field of the config object after the construction.
CallerMutatesConfig(a) ==
  /\ constructedWith # Undefined
  /\ Assign(callerConfig[1], a) # callerConfig[1]
  /\ callerConfig' = Some(Assign(callerConfig[1], a))
  /\ UNCHANGED <<callVars, oaiBody, client, constructedWith, load, oneperVars>>

\* A call of a method the Anthropic client does not implement.
CallUnsupported(method) ==
  /\ client # Undefined
  /\ client[1].class = "AnthropicApi"
  /\ ~unsupported[method].called
  /\ unsupported' = [unsupported EXCEPT ![method] = NotImplemented(method)]
  /\ UNCHANGED <<pc, kind, cancelled, status, response, bodyRead, wire, frame, out,
                 err, result, httpRequests, posted, clientVars, load, oneperVars>>

NextUnsupported ==
  \/ \E method \in UnsupportedMethods : CallUnsupported(method)
  \/ StartStream(1)
  \/ StartNonStream(1)

\* The calls of one Anthropic client, the methods without an implementation
\* among them, in any order.
SpecUnsupported == Init /\ [][NextUnsupported]_vars

\* ------------------------------------- intermediateToFinalConfig, by steps

\* The run starts with no model in either list.
InitLoad ==
  /\ InitCalls
  /\ Constructed(DefaultConfig, ExampleRequest)
  /\ \E config \in LoadedConfigs :
       load = [pc |-> "models", config |-> config, models |-> <<>>,
               tabAutocompleteModels |-> <<>>, seen |-> {},
               listed |-> [i \in 1..Len(config.models) |-> NotListed]]
  /\ OneperAtRest

\* One callback of config.models.map runs to its end; the callbacks end in
\* any order.
ChatModelDescribed(i, listing) ==
  /\ load.pc = "models"
  /\ i \in (1..Len(load.config.models)) \ load.seen
  /\ listing = NotListed <=> load.config.models[i].model # "AUTODETECT"
  /\ load' = [load EXCEPT
                !.models = DescribeChatModel(@, load.config.models[i], i, listing),
                !.seen = @ \cup {i},
                !.listed[i] = listing]
  /\ UNCHANGED <<callVars, clientVars, oneperVars>>

\* After Promise.all: the request options are applied and the free-trial
\* models dropped.
ChatModelsApplied ==
  /\ load.pc = "models"
  /\ load.seen = 1..Len(load.config.models)
  /\ load' = [load EXCEPT
                !.pc = "autocomplete",
                !.seen = {},
                !.models =
                  SelectSeq(applyRequestOptionsToModels(@, load.config,
                                                        Some(ChatRoles)),
                            NotFreeTrial)]
  /\ UNCHANGED <<callVars, clientVars, oneperVars>>

TabModelDescribed(i) ==
  /\ load.pc = "autocomplete"
  /\ i \in (1..Len(load.config.tabAutocompleteModel)) \ load.seen
  /\ load' = [load EXCEPT
                !.tabAutocompleteModels =
                  DescribeTabModel(@, load.config.tabAutocompleteModel[i], i),
                !.seen = @ \cup {i}]
  /\ UNCHANGED <<callVars, clientVars, oneperVars>>

\* The request options are applied to the autocomplete models and the final
\* config is built.
TabModelsApplied ==
  /\ load.pc = "autocomplete"
  /\ load.seen = 1..Len(load.config.tabAutocompleteModel)
  /\ load' = [load EXCEPT
                !.pc = "done",
                !.tabAutocompleteModels =
                  applyRequestOptionsToModels(@, load.config, Undefined)]
  /\ UNCHANGED <<callVars, clientVars, oneperVars>>

NextLoad ==
  \/ \E i \in 1..MaxDescriptions, listing \in Listings \cup {NotListed} :
       ChatModelDescribed(i, listing)
  \/ ChatModelsApplied
  \/ \E i \in 1..MaxDescriptions : TabModelDescribed(i)
  \/ TabModelsApplied

SpecLoad == InitLoad /\ [][NextLoad]_vars

\* No client constructed yet.
InitClient ==
  /\ InitCalls
  /\ oaiBody = ExampleRequest
  /\ callerConfig = Undefined
  /\ client = Undefined
  /\ constructedWith = Undefined
  /\ load = NotLoading
  /\ OneperAtRest

NextClient ==
  \/ \E config \in Configs : Construct(config)
  \/ \E a \in Assignments : CallerMutatesConfig(a)
  \/ StartStream(1)
  \/ StartNonStream(1)

SpecClient == InitClient /\ [][NextClient]_vars

\* Calls of a client constructed with any caching strategy, on any request.
InitTranslate ==
  /\ InitCalls
  /\ \/ \E request \in Requests :
          Constructed(Config("k1", Undefined, Undefined), request)
     \/ \E strategy \in StrategyNames :
          Constructed(Config("k1", Undefined, strategy), ExampleRequest)
  /\ load = NotLoading
  /\ OneperAtRest

NextTranslate == \E c \in Calls : StartStream(c) \/ StartNonStream(c)

SpecTranslate == InitTranslate /\ [][NextTranslate]_vars

\* ------------------------------------------------- reading a vendor stream

IsToolStart(e) == e.type = "content_block_start" /\ e.block_type = "tool_use"

IsBlockStop(e) == e.type = "content_block_stop"

IsTextDelta(e) == e.type = "content_block_delta" /\ e.delta_type = "text_delta"

IsJsonDelta(e) ==
  e.type = "content_block_delta" /\ e.delta_type = "input_json_delta"

IsContentDelta(e) == IsTextDelta(e) \/ IsJsonDelta(e)

\* The event tags the wire protocol enumerates, and the delta types it carries.
KnownTags ==
  {"message_start", "content_block_start", "content_block_delta",
   "content_block_stop", "message_delta", "message_stop"}

IsUnrecognized(e) ==
  \/ e.type \notin KnownTags
  \/ e.type = "content_block_delta"
       /\ e.delta_type \notin {"text_delta", "input_json_delta"}

IsRecognized(e) == ~IsUnrecognized(e)

Max(S) == CHOOSE x \in S : \A y \in S : y <= x

\* The tool-typed content_block_start whose block is open after events: the
\* last one, unless a content_block_stop followed it.
OpenTool(events) ==
  LET marks == {j \in 1..Len(events) :
                  IsToolStart(events[j]) \/ IsBlockStop(events[j])}
  IN IF marks = {} THEN Undefined
     ELSE LET e == events[Max(marks)]
          IN IF IsToolStart(e) /\ e.id # "" /\ e.name # "" THEN Some(e)
             ELSE Undefined

\* The tool-call deltas the first n events of a stream call for.
RECURSIVE WireToolDeltas(_, _)
WireToolDeltas(events, n) ==
  IF n = 0 THEN <<>>
  ELSE LET before == WireToolDeltas(events, n - 1)
           open == OpenTool(SubSeq(events, 1, n - 1))
       IN IF IsJsonDelta(events[n]) /\ open # Undefined
          THEN Append(before, [id |-> open[1].id, name |-> open[1].name,
                               arguments |-> events[n].partial_json])
          ELSE before

\* The tool-call deltas among the chunks emitted.
IsToolChunk(ch) == ch.kind = "tool"

EmittedToolDeltas(chunks) ==
  LET tools == SelectSeq(chunks, IsToolChunk)
  IN [i \in 1..Len(tools) |->
        [id |-> tools[i].id, name |-> tools[i].name,
         arguments |-> tools[i].arguments]]

RECURSIVE ConcatArguments(_, _)
ConcatArguments(deltas, id) ==
  IF deltas = <<>> THEN <<>>
  ELSE (IF Head(deltas).id = id THEN Head(deltas).arguments ELSE <<>>)
         \o ConcatArguments(Tail(deltas), id)

ToolIds == {"t1", "t2"}

IsUsageChunk(ch) == ch.kind = "usage"

UsageChunks(chunks) == SelectSeq(chunks, IsUsageChunk)

StreamCalls == {c \in Calls : kind[c] = "stream"}

\* The calls whose response carried an event stream.
DecodingCalls == {c \in StreamCalls : status[c] = Some(200)}

Finished(c) == pc[c] \in {"done", "failed"}

\* ---------------------------------------------------------------- claims

\* C1 as stated: every stream of vendor events fed to handleStreamResponse
\* ends with exactly one usage chunk, its last chunk.
C1_EveryStreamOneTerminalLast ==
  \A c \in DecodingCalls :
    Finished(c) =>
      /\ Len(UsageChunks(out[c])) = 1
      /\ out[c] # <<>>
      /\ IsUsageChunk(out[c][Len(out[c])])

\* C1 amended: a stream that ends without an error holds exactly one usage
\* chunk, its last chunk; a stream still being read or failed holds none.
C1_TerminalChunk ==
  \A c \in StreamCalls :
    /\ pc[c] = "done" =>
         /\ Len(UsageChunks(out[c])) = 1
         /\ IsUsageChunk(out[c][Len(out[c])])
    /\ pc[c] # "done" => UsageChunks(out[c]) = <<>>

C1_Witness ==
  \E c \in DecodingCalls :
    /\ pc[c] = "done"
    /\ Len(out[c]) >= 3

\* C2: in the usage chunk of a stream and in the response of a
\* non-streaming call, total_tokens = prompt_tokens + completion_tokens.
C2_TotalIsSum ==
  \A c \in Calls :
    /\ \A i \in 1..Len(out[c]) :
         IsUsageChunk(out[c][i]) =>
           out[c][i].usage.total_tokens =
             out[c][i].usage.prompt_tokens + out[c][i].usage.completion_tokens
    /\ (result[c] # Undefined /\ ~result[c][1].empty) =>
         result[c][1].usage.total_tokens =
           result[c][1].usage.prompt_tokens + result[c][1].usage.completion_tokens

C2_Witness ==
  \E c \in DecodingCalls :
    /\ pc[c] = "done"
    /\ wire[c] = <<MessageDelta(Some(3)), MessageStart(Some(10), Some(4)),
                   MessageDelta(Some(3))>>
    /\ out[c][1].usage.total_tokens = 13

\* C3: an error-free stream yields one chunk per text or tool-argument
\* delta, in wire order and with the delta's payload, then the usage chunk
\* once it has ended; no other event yields a chunk.  The worked example
\* yields the text chunk "Hi" and the usage chunk 10 / 3 / 13.
C3_ChunkPerContentDelta ==
  \A c \in DecodingCalls :
    pc[c] \in {"streaming", "done"} =>
      LET deltas == SelectSeq(wire[c], IsContentDelta)
          n == Len(deltas)
      IN /\ Len(out[c]) = n + (IF pc[c] = "done" THEN 1 ELSE 0)
         /\ \A i \in 1..n :
              IF IsTextDelta(deltas[i])
              THEN out[c][i].kind = "text" /\ out[c][i].content = deltas[i].text
              ELSE /\ out[c][i].kind = "tool"
                   /\ out[c][i].arguments = deltas[i].partial_json
         /\ pc[c] = "done" => IsUsageChunk(out[c][n + 1])
         /\ (pc[c] = "done" /\ wire[c] = ExampleStream) =>
              /\ Len(out[c]) = 2
              /\ out[c][1] = chatChunk(Hi)
              /\ out[c][2].usage.prompt_tokens = 10
              /\ out[c][2].usage.completion_tokens = 3
              /\ out[c][2].usage.total_tokens = 13

C3_Witness ==
  \E c \in DecodingCalls : pc[c] = "done" /\ wire[c] = ExampleStream

\* C4: a tool-argument delta arriving while no tool block is open fails the
\* stream with an error and yields no chunk, and a failed stream yields
\* nothing more: no chunk, no usage chunk.
C4_DeltaWithoutToolFails ==
  [][\A c \in DecodingCalls :
       /\ \A value \in JsonDeltas :
            (wire'[c] = Append(wire[c], value) /\ OpenTool(wire[c]) = Undefined) =>
              /\ pc'[c] = "failed"
              /\ err'[c] = Some(JsError("Error", NoToolUseFound))
              /\ out'[c] = out[c]
       /\ pc[c] = "failed" =>
            /\ pc'[c] = "failed"
            /\ out'[c] = out[c]
            /\ UsageChunks(out[c]) = <<>>]_vars

C4_Witness ==
  \E c \in DecodingCalls :
    /\ pc[c] = "failed"
    /\ err[c] = Some(JsError("Error", NoToolUseFound))
    /\ wire[c] = <<ContentBlockStartTool("t1", "f"), ContentBlockStop,
                   InputJsonDelta(Frag1)>>
    /\ out[c] = <<>>

\* C5: the tool-call deltas emitted are, in order, the vendor's argument
\* fragments, each with the id and name of the tool block open when it
\* arrived; so per tool-call id the emitted arguments concatenate to the
\* concatenation of that block's fragments.
C5_ToolDeltasFollowWire ==
  \A c \in DecodingCalls :
    LET emitted == EmittedToolDeltas(out[c])
        sent == WireToolDeltas(wire[c], Len(wire[c]))
    IN /\ emitted = sent
       /\ \A id \in ToolIds :
            ConcatArguments(emitted, id) = ConcatArguments(sent, id)

C5_Witness ==
  \E c \in DecodingCalls :
    /\ wire[c] = <<ContentBlockStartTool("t1", "f"), InputJsonDelta(Frag1),
                   InputJsonDelta(Frag2)>>
    /\ ConcatArguments(EmittedToolDeltas(out[c]), "t1") = Frag1 \o Frag2

\* C6: events with an unrecognized tag and deltas of an unrecognized type
\* are ignored: the chunks, the error and the decoder's locals are those of
\* the stream without them.
C6_UnrecognizedIgnored ==
  \A c \in DecodingCalls :
    LET alone == handleStreamResponse(SelectSeq(wire[c], IsRecognized),
                                      pc[c] = "done")
    IN /\ out[c] = alone.yield
       /\ (pc[c] = "failed") = (alone.throw # Undefined)
       /\ frame[Locals(c)] = alone.loc

C6_Witness ==
  \E c \in DecodingCalls :
    /\ pc[c] = "done"
    /\ wire[c] = <<Ping, TextDelta(Hi), ThinkingDelta>>
    /\ Len(out[c]) = 2

\* C7: each of two concurrent streaming calls yields the chunks, and fails
\* or not, as it would alone.
C7_ConcurrentAsAlone ==
  \A c \in DecodingCalls :
    LET alone == handleStreamResponse(wire[c], pc[c] = "done")
    IN /\ out[c] = alone.yield
       /\ (pc[c] = "failed") = (alone.throw # Undefined)

C7_Witness ==
  /\ pc[1] = "streaming" /\ pc[2] = "streaming"
  /\ wire[1] = <<ContentBlockStartTool("t1", "f"), InputJsonDelta(Frag1)>>
  /\ wire[2] = <<ContentBlockStartTool("t2", "g"), InputJsonDelta(Frag1)>>
  /\ out[1][1].id = "t1" /\ out[2][1].id = "t2"

\* C8 as stated: a cancelled streaming call (the transport answered with the
\* aborted status) ends with no error and emits no chunk.
C8_CancelledStreamEmitsNothing ==
  \A c \in StreamCalls :
    (cancelled[c] /\ status[c] = Some(AbortedStatus)) =>
      /\ pc[c] = "done"
      /\ err[c] = Undefined
      /\ out[c] = <<>>

\* C9: a non-streaming call answered with status 499 resolves to the empty
\* completion, without reading the body and without an error.
C9_AbortedNonStreamIsEmpty ==
  \A c \in Calls :
    (kind[c] = "nonstream" /\ status[c] = Some(AbortedStatus)) =>
      /\ pc[c] = "done"
      /\ result[c] = Some(EMPTY_CHAT_COMPLETION)
      /\ ~bodyRead[c]
      /\ err[c] = Undefined

C9_Witness ==
  \E c \in Calls :
    /\ kind[c] = "nonstream"
    /\ cancelled[c]
    /\ status[c] = Some(AbortedStatus)
    /\ pc[c] = "done"

\* C10 as stated: a call answered with a non-success status other than 499
\* fails with an upstream error carrying the status and the vendor message,
\* and returns no response and emits no chunk.
C10_NonSuccessIsUpstreamError ==
  \A c \in Calls :
    (status[c] # Undefined /\ status[c][1] \notin {200, AbortedStatus}) =>
      /\ pc[c] = "failed"
      /\ err[c] = Some(UpstreamError(status[c][1], response[c][1]))
      /\ result[c] = Undefined
      /\ out[c] = <<>>

\* C11: a call issues one HTTP request and never a second one, whatever the
\* response: success, aborted status, non-success status or decode error.
C11_OneRequestPerCall ==
  \A c \in Calls :
    /\ httpRequests[c] <= 1
    /\ (pc[c] \in {"fetching", "streaming"} \/ status[c] # Undefined) =>
         httpRequests[c] = 1

C11_Witness ==
  \E c \in Calls :
    /\ kind[c] = "nonstream"
    /\ pc[c] = "failed"
    /\ status[c] = Some(500)
    /\ httpRequests[c] = 1

\* ------------------------------------------------- request translation

\* The calls that got past the translation of the request.
Posted == {c \in Calls : posted[c] # Undefined}

BodyOf(c) == posted[c][1].body.clean

ToolNames(tools) ==
  IF tools = Undefined THEN {} ELSE {tools[1][i].function.name : i \in 1..Len(tools[1])}

\* tool_choice names a function that tools does not hold.
ChoosesAbsentTool(request) ==
  /\ request.tool_choice # Undefined
  /\ request.tool_choice[1].t = "object"
  /\ request.tool_choice[1].function.name \notin ToolNames(request.tools)

\* C12 (as claimed): a call whose tool_choice names a tool absent from tools
\* fails with a validation error and issues no HTTP request.
C12_AbsentToolRejectedBeforeNetwork ==
  \A c \in Calls :
    (pc[c] # "idle" /\ ChoosesAbsentTool(oaiBody)) =>
      /\ httpRequests[c] = 0
      /\ pc[c] = "failed"
      /\ err[c] # Undefined /\ err[c][1].name = "ValidationError"

\* The places of the system messages and of the others in the request.
SystemPlaces(messages) == {i \in 1..Len(messages) : messages[i].role = "system"}

OtherPlaces(messages) == (1..Len(messages)) \ SystemPlaces(messages)

\* The place in the request of the k-th message that is not a system message.
PlaceOfOther(messages, k) ==
  CHOOSE i \in OtherPlaces(messages) :
    Cardinality({j \in OtherPlaces(messages) : j <= i}) = k

\* The content the vendor system field carries: the text of its block, or
\* the field itself when it is not a block.
SystemFieldContent(field) ==
  IF field[1].t = "array" THEN field[1].items[1].text ELSE field[1]

\* C13: the translated message list holds no system message and every other
\* message of the request in its original order; the system field holds the
\* content of the first system message only and is absent when there is none.
C13_SystemLifted ==
  \A c \in Posted :
    LET messages == oaiBody.messages
        translated == BodyOf(c).messages
        system == BodyOf(c).system
    IN /\ \A k \in 1..Len(translated) : translated[k].role # "system"
       /\ Len(translated) = Cardinality(OtherPlaces(messages))
       /\ \A k \in 1..Len(translated) :
            translated[k] = ConvertMessage(messages[PlaceOfOther(messages, k)])
       /\ SystemPlaces(messages) = {} => system = Undefined
       /\ SystemPlaces(messages) # {} =>
            /\ system # Undefined
            /\ LET first == CHOOSE i \in SystemPlaces(messages) :
                              \A j \in SystemPlaces(messages) : i <= j
               IN SystemFieldContent(system) = messages[first].content

\* Two system messages of different contents around another message.
C13_Witness ==
  \E c \in Posted :
    /\ Len(oaiBody.messages) = 3
    /\ oaiBody.messages[1] = SystemMessage(<<"B">>)
    /\ oaiBody.messages[2].role = "tool"
    /\ oaiBody.messages[3] = SystemMessage(<<"A">>)
    /\ Len(BodyOf(c).messages) = 1

\* The entries of a stop input: none when unset, the string itself, the
\* entries of the list.
StopEntries(stop) ==
  IF stop = Undefined THEN <<>>
  ELSE IF stop[1].t = "string" THEN <<stop[1].v>>
  ELSE stop[1].items

Blank(entry) == \A i \in 1..Len(entry) : entry[i] \in WhiteSpace

KeptPlaces(entries) == {i \in 1..Len(entries) : ~Blank(entries[i])}

\* The place in the input of the k-th entry that is not blank.
PlaceOfKept(entries, k) ==
  CHOOSE i \in KeptPlaces(entries) :
    Cardinality({j \in KeptPlaces(entries) : j <= i}) = k

\* C14 (as claimed): the stop-sequence field never holds a blank entry, keeps
\* the non-blank entries of the input in their order, and is absent whenever
\* the input has no non-blank entry.
C14_StopNormalised ==
  \A c \in Posted :
    LET entries == StopEntries(oaiBody.stop)
        field == BodyOf(c).stop_sequences
    IN /\ field # Undefined =>
            /\ \A k \in 1..Len(field[1]) : ~Blank(field[1][k])
            /\ Len(field[1]) = Cardinality(KeptPlaces(entries))
            /\ \A k \in 1..Len(field[1]) :
                 field[1][k] = entries[PlaceOfKept(entries, k)]
       /\ field = Undefined => KeptPlaces(entries) = {}
       /\ KeptPlaces(entries) = {} => field = Undefined

KnownStrategies == DOMAIN CACHING_STRATEGIES

\* The strategy the claim expects for a configured name.
ExpectedStrategy(name) ==
  IF name # Undefined /\ name[1] \in KnownStrategies THEN name[1]
  ELSE "systemAndTools"

\* C16 (as claimed): the strategy applied is the configured one when known and
\* systemAndTools when none is configured or the name is unknown; no strategy
\* name makes the call fail.
C16_StrategyFallsBack ==
  \A c \in Calls :
    pc[c] # "idle" =>
      /\ pc[c] # "failed"
      /\ posted[c] # Undefined
      /\ posted[c][1].body.strategy = ExpectedStrategy(ClientConfig.cachingStrategy)

\* ------------------------------------------------ construction of clients

\* A client has been asked for, for this provider.
ConstructedFor(providers) ==
  constructedWith # Undefined /\ constructedWith[1].provider \in providers

LastOf(text) == text[Len(text)]

\* C17: the apiBase of a constructed Anthropic client ends with "/": it is
\* config.apiBase when provided, with "/" appended only if missing, and the
\* provider default otherwise.
C17_ApiBaseEndsWithSlash ==
  ConstructedFor({"anthropic"}) =>
    LET given == constructedWith[1].apiBase
        apiBase == client[1].apiBase
    IN /\ Len(apiBase) > 0 /\ LastOf(apiBase) = "/"
       /\ given = Undefined => apiBase = <<"https://api.anthropic.com/v1", "/">>
       /\ (given # Undefined /\ given[1] # <<>> /\ LastOf(given[1]) = "/") =>
            apiBase = given[1]
       /\ (given # Undefined /\ (given[1] = <<>> \/ LastOf(given[1]) # "/")) =>
            apiBase = given[1] \o <<"/">>

\* An Anthropic client constructed with an apiBase that lacks the final "/".
C17_Witness ==
  /\ ConstructedFor({"anthropic"})
  /\ constructedWith[1].apiBase = Some(<<"https://proxy.example/v1">>)
  /\ client[1].apiBase = <<"https://proxy.example/v1", "/">>

\* C18: constructLlmApi returns a client for every registered provider and
\* no client for any other identifier.
C18_ClientIffRegistered ==
  constructedWith # Undefined =>
    /\ ConstructedFor(RegisteredProviders) => client # Undefined
    /\ ~ConstructedFor(RegisteredProviders) => client = Undefined
    /\ ConstructedFor(OpenAICompatibleProviders \cup {"openai"}) =>
         client[1].class = "OpenAIApi"
    /\ ConstructedFor({"anthropic"}) => client[1].class = "AnthropicApi"

\* An identifier that differs from a registered one by its case only.
C18_Witness ==
  /\ ConstructedFor({"OpenAI"})
  /\ client = Undefined

\* The fields of a configuration other than apiBase.
OtherFields(config) == [f \in (DOMAIN config) \ {"apiBase"} |-> config[f]]

\* C19: the generic client is given config.apiBase when the configuration has
\* one and the provider's default otherwise, every other field as configured,
\* and the construction leaves the caller's object as it was passed.
C19_GenericClientApiBase ==
  /\ [](ConstructedFor(OpenAICompatibleProviders) =>
          LET config == constructedWith[1]
              given == client[1].config
          IN /\ client[1].class = "OpenAIApi"
             /\ config.apiBase # Undefined => given.apiBase = config.apiBase
             /\ config.apiBase = Undefined =>
                  given.apiBase = OpenAICompatibleDefault(config.provider)
             /\ OtherFields(given) = OtherFields(config))
  /\ [][(constructedWith = Undefined /\ constructedWith' # Undefined) =>
          callerConfig' = constructedWith']_vars

\* A generic client constructed with an apiBase of the caller's.
C19_Witness ==
  /\ ConstructedFor({"msty"})
  /\ constructedWith[1].apiBase = Some(<<"https://proxy.example/v1">>)
  /\ client[1].config.apiBase = Some(<<"https://proxy.example/v1">>)

\* The apiBase an Anthropic client takes from a configuration.
NormalisedApiBase(config) ==
  LET apiBase == IF config.apiBase = Undefined
                 THEN <<"https://api.anthropic.com/v1", "/">>
                 ELSE config.apiBase[1]
  IN IF apiBase # <<>> /\ LastOf(apiBase) = "/" THEN apiBase
     ELSE apiBase \o <<"/">>

\* C20 (as claimed): every request of a client uses the apiKey, apiBase,
\* request options and caching strategy of the configuration as it was at
\* construction, whatever the caller assigned to the object since; a call
\* that fails in translation fails for the strategy configured at construction.
C20_ConfigCapturedOnce ==
  \A c \in Calls :
    /\ posted[c] # Undefined =>
         /\ posted[c][1].apiKey = constructedWith[1].apiKey
         /\ posted[c][1].requestOptions = constructedWith[1].requestOptions
         /\ posted[c][1].url = NormalisedApiBase(constructedWith[1]) \o <<"messages">>
         /\ constructedWith[1].cachingStrategy # Undefined =>
              posted[c][1].body.strategy = constructedWith[1].cachingStrategy[1]
         /\ constructedWith[1].cachingStrategy = Undefined =>
              posted[c][1].body.strategy = "systemAndTools"
    /\ (pc[c] = "failed" /\ posted[c] = Undefined) =>
         constructedWith[1].cachingStrategy = Some("bogus")

\* ------------------------------------ the methods without an implementation

\* C21 (as claimed): each method without an implementation fails its call
\* with a rejected result or an error as the first element of the sequence,
\* whatever other methods were called; it issues no HTTP request and changes
\* nothing of the client.
C21_NotSupportedIsRejection ==
  /\ [](\A method \in UnsupportedMethods :
          unsupported[method].called =>
            /\ unsupported[method].error.message = "Method not implemented."
            /\ unsupported[method].surfaces \in {"rejected promise", "first element"})
  /\ [][\A method \in UnsupportedMethods :
          (~unsupported[method].called /\ unsupported'[method].called) =>
            /\ httpRequests' = httpRequests
            /\ posted' = posted
            /\ client' = client
            /\ callerConfig' = callerConfig
            /\ \A other \in UnsupportedMethods \ {method} :
                 unsupported'[other] = unsupported[other]]_vars

\* ---------------------------------------------------- the loaded config

\* The value the claim expects for a key of a model's request options.
ExpectedOption(desc, config, key) ==
  IF key \in DOMAIN desc.requestOptions THEN desc.requestOptions[key]
  ELSE config.requestOptions[key]

\* The request options of every model of the list are those expected.
ModelLevelWins(models, descs, config) ==
  \A m \in 1..Len(models) :
    LET desc == descs[models[m].desc]
        keys == (DOMAIN desc.requestOptions) \cup (DOMAIN config.requestOptions)
    IN /\ DOMAIN models[m].requestOptions = keys
       /\ \A key \in keys :
            models[m].requestOptions[key] = ExpectedOption(desc, config, key)

\* C22 (as claimed): in the loaded config every chat and autocomplete model has,
\* for a request-option key set at both levels, the model's value, and for a
\* key set at one level that level's value.
C22_ModelOptionsOverride ==
  load.pc = "done" =>
    /\ ModelLevelWins(load.models, load.config.models, load.config)
    /\ ModelLevelWins(load.tabAutocompleteModels, load.config.tabAutocompleteModel,
                      load.config)

\* The models of the final list built from description i.
ModelsOf(i) == SelectSeq(load.models, LAMBDA model : model.desc = i)

\* C23 (as claimed): a description whose model is AUTODETECT gives one chat
\* model per name its listModels returned, for described and custom models
\* alike, none when the listing failed, and never a model named AUTODETECT.
C23_AutodetectExpanded ==
  load.pc = "done" =>
    /\ \A m \in 1..Len(load.models) : load.models[m].model # "AUTODETECT"
    /\ \A i \in 1..Len(load.config.models) :
         load.config.models[i].model = "AUTODETECT" =>
           LET names == load.listed[i].names
               found == ModelsOf(i)
           IN /\ Len(found) = Len(names)
              /\ \A n \in 1..Len(names) : found[n].model = names[n]

\* ------------------------------------------------------ usage and blocks

IsMessageDelta(e) == e.type = "message_delta"

IsMessageStart(e) == e.type = "message_start"

ReportsOutput(e) == IsMessageDelta(e) /\ e.output_tokens # Undefined

\* The last event of a stream that satisfies Is, if any.
LastEvent(events, Is(_)) ==
  LET found == SelectSeq(events, Is)
  IN IF found = <<>> THEN Undefined ELSE Some(found[Len(found)])

\* The usage of the chunk that ends the stream of call c.
TerminalUsage(c) == out[c][Len(out[c])].usage

\* C24 (as claimed): the completion_tokens of the terminal chunk is the output
\* count of the last message_delta that reported one, 0 if none did.
C24_LastReportedOutputCount ==
  \A c \in DecodingCalls :
    pc[c] = "done" =>
      LET last == LastEvent(wire[c], ReportsOutput)
      IN TerminalUsage(c).completion_tokens =
           (IF last = Undefined THEN 0 ELSE last[1].output_tokens[1])

\* C25: the prompt_tokens of the terminal chunk is the input count of
\* message_start (0 if absent or without a message_start) and cached_tokens
\* its cache-read count (0 if absent); a message_start yields no chunk and
\* leaves the tool id and name and completion_tokens as they were.
C25_MessageStartSetsPrompt ==
  /\ [](\A c \in DecodingCalls :
          pc[c] = "done" =>
            LET start == LastEvent(wire[c], IsMessageStart)
            IN IF start = Undefined
               THEN TerminalUsage(c).prompt_tokens = 0
               ELSE /\ TerminalUsage(c).prompt_tokens =
                         (IF start[1].input_tokens = Undefined THEN 0
                          ELSE start[1].input_tokens[1])
                    /\ TerminalUsage(c).prompt_tokens_details[1].cached_tokens =
                         (IF start[1].cache_read_input_tokens = Undefined THEN 0
                          ELSE start[1].cache_read_input_tokens[1]))
  /\ [][\A c \in DecodingCalls :
          (wire'[c] # wire[c] /\ IsMessageStart(wire'[c][Len(wire'[c])])) =>
            /\ out'[c] = out[c]
            /\ pc'[c] = pc[c]
            /\ frame'[Locals(c)].lastToolUseId = frame[Locals(c)].lastToolUseId
            /\ frame'[Locals(c)].lastToolUseName = frame[Locals(c)].lastToolUseName
            /\ frame'[Locals(c)].usage.completion_tokens =
                 frame[Locals(c)].usage.completion_tokens]_vars

\* A message_start arriving after a count of output tokens, inside a tool block.
C25_Witness ==
  \E c \in DecodingCalls :
    /\ pc[c] = "done"
    /\ wire[c] = <<ContentBlockStartTool("t1", "f"), MessageDelta(Some(3)),
                   MessageStart(Some(10), Some(4))>>
    /\ TerminalUsage(c).prompt_tokens = 10
    /\ TerminalUsage(c).completion_tokens = 3
    /\ TerminalUsage(c).prompt_tokens_details = Some([cached_tokens |-> 4])

IsTextStart(e) == e.type = "content_block_start" /\ e.block_type = "text"

IsBlockMark(e) == e.type \in {"content_block_start", "content_block_stop"}

\* The state of the decoder after events, by the last content_block_start or
\* content_block_stop among them.
DecoderState(events) ==
  LET mark == LastEvent(events, IsBlockMark)
  IN IF mark = Undefined \/ IsBlockStop(mark[1]) THEN "IDLE"
     ELSE IF IsTextStart(mark[1]) THEN "TEXT_BLOCK"
     ELSE "TOOL_BLOCK"

Before(events, n) == SubSeq(events, 1, n - 1)

\* C26: content_block_stop clears the tool id and name; from it to the next
\* tool-typed content_block_start no id is active, and the deltas of the next
\* tool block carry that block's id and name.
C26_StopClearsTool ==
  /\ [](\A c \in DecodingCalls :
          /\ DecoderState(wire[c]) = "IDLE" =>
               /\ frame[Locals(c)].lastToolUseId = Undefined
               /\ frame[Locals(c)].lastToolUseName = Undefined
          /\ (wire[c] # <<>> /\ IsJsonDelta(wire[c][Len(wire[c])])
                /\ DecoderState(wire[c]) = "IDLE") =>
               pc[c] = "failed"
          /\ LET tools == SelectSeq(out[c], IsToolChunk)
                 deltas == {n \in 1..Len(wire[c]) : IsJsonDelta(wire[c][n])}
             IN \A n \in deltas :
                  LET k == Cardinality({m \in deltas : m <= n})
                      start == LastEvent(Before(wire[c], n), IsToolStart)
                  IN k <= Len(tools) =>
                       /\ tools[k].id = start[1].id
                       /\ tools[k].name = start[1].name)
  /\ [][\A c \in DecodingCalls :
          (wire'[c] # wire[c] /\ IsBlockStop(wire'[c][Len(wire'[c])])) =>
            /\ frame'[Locals(c)].lastToolUseId = Undefined
            /\ frame'[Locals(c)].lastToolUseName = Undefined
            /\ out'[c] = out[c]]_vars

\* A tool block closed, another opened, and a delta of the second emitted.
C26_Witness ==
  \E c \in DecodingCalls :
    /\ wire[c] = <<ContentBlockStartTool("t1", "f"), ContentBlockStop,
                   ContentBlockStartTool("t2", "g"), InputJsonDelta(Frag1)>>
    /\ Len(out[c]) = 1
    /\ out[c][1].id = "t2"
    /\ out[c][1].name = "g"

IsTextChunk(ch) == ch.kind = "text"

\* C27 (as claimed): a text chunk is emitted for the text deltas received in
\* TEXT_BLOCK and for no other: a text delta in IDLE or TOOL_BLOCK gives none.
C27_TextOnlyInTextBlock ==
  \A c \in DecodingCalls :
    Len(SelectSeq(out[c], IsTextChunk)) =
      Cardinality({n \in 1..Len(wire[c]) :
                     /\ IsTextDelta(wire[c][n])
                     /\ DecoderState(Before(wire[c], n)) = "TEXT_BLOCK"})

\* C28 (as claimed): after a text-typed content_block_start no tool id is
\* active, even when a tool block was open, and a tool-argument delta that
\* arrives then fails the stream and yields no tool chunk.
C28_TextStartLeavesToolBlock ==
  \A c \in DecodingCalls :
    /\ DecoderState(wire[c]) = "TEXT_BLOCK" =>
         frame[Locals(c)].lastToolUseId = Undefined
    /\ \A n \in 1..Len(wire[c]) :
         (IsJsonDelta(wire[c][n]) /\ DecoderState(Before(wire[c], n)) = "TEXT_BLOCK") =>
           /\ n = Len(wire[c])
           /\ pc[c] = "failed"
    /\ Len(SelectSeq(out[c], IsToolChunk)) =
         Cardinality({n \in 1..Len(wire[c]) :
                        /\ IsJsonDelta(wire[c][n])
                        /\ DecoderState(Before(wire[c], n)) = "TOOL_BLOCK"})

\* ------------------------------------------------- messages and their parts

HasToolCalls(message) == message.role = "assistant" /\ "tool_calls" \in DOMAIN message

\* C29: the messages other than system ones are translated one to one and in
\* order: a tool message to a user message with one tool_result block of the
\* message's tool_call_id, an assistant message with tool calls to an
\* assistant message with one tool_use block per call, in order, with the
\* call's id and name.
C29_ToolMessagesTranslated ==
  \A c \in Posted :
    LET messages == oaiBody.messages
        translated == BodyOf(c).messages
    IN /\ Len(translated) = Cardinality(OtherPlaces(messages))
       /\ \A k \in 1..Len(translated) :
            LET message == messages[PlaceOfOther(messages, k)]
                vendor == translated[k]
            IN /\ message.role = "tool" =>
                    /\ vendor.role = "user"
                    /\ Len(vendor.content) = 1
                    /\ vendor.content[1].type = "tool_result"
                    /\ vendor.content[1].tool_use_id = message.tool_call_id
               /\ HasToolCalls(message) =>
                    /\ vendor.role = "assistant"
                    /\ Len(vendor.content) = Len(message.tool_calls)
                    /\ \A j \in 1..Len(message.tool_calls) :
                         /\ vendor.content[j].type = "tool_use"
                         /\ vendor.content[j].id = message.tool_calls[j].id
                         /\ vendor.content[j].name = message.tool_calls[j].function.name
               /\ (message.role # "tool" /\ ~HasToolCalls(message)) =>
                    vendor.role = message.role

\* An assistant message with two tool calls, then the result of the first,
\* after a system message.
C29_Witness ==
  \E c \in Posted :
    /\ oaiBody.messages = <<SystemMessage(<<"A">>), AssistantToolCalls, ToolMessage>>
    /\ Len(BodyOf(c).messages) = 2
    /\ Len(BodyOf(c).messages[1].content) = 2
    /\ BodyOf(c).messages[2].content[1].tool_use_id = "t1"

IsImagePart(part) == part.type = "image_url"

\* The mime type and the payload of a data URL.
MimeOf(url) == url[2]

PayloadOf(url) == <<url[Len(url)]>>

\* The parts of a message that are not blank text parts.
RemainingPlaces(parts) ==
  {i \in 1..Len(parts) : IsImagePart(parts[i]) \/ ~Blank(parts[i].text)}

PlaceOfRemaining(parts, k) ==
  CHOOSE i \in RemainingPlaces(parts) :
    Cardinality({j \in RemainingPlaces(parts) : j <= i}) = k

\* C30 (as claimed): the parts of a multi-part message that are not blank text
\* keep their order, and each image part becomes an image block of the part's
\* mime type and base64 payload.
C30_ImagePartsKeepMime ==
  \A c \in Posted :
    LET messages == oaiBody.messages
        translated == BodyOf(c).messages
    IN \A k \in 1..Len(translated) :
         LET message == messages[PlaceOfOther(messages, k)]
         IN (message.role = "user" /\ message.content.t = "array") =>
              LET parts == message.content.items
                  blocks == translated[k].content.items
              IN /\ Len(blocks) = Cardinality(RemainingPlaces(parts))
                 /\ \A b \in 1..Len(blocks) :
                      LET part == parts[PlaceOfRemaining(parts, b)]
                      IN IF IsImagePart(part)
                         THEN /\ blocks[b].type = "image"
                              /\ blocks[b].source.data = Some(PayloadOf(part.image_url.url))
                              /\ blocks[b].source.media_type = MimeOf(part.image_url.url)
                         ELSE blocks[b] = part

\* The directive words a canonical tool_choice may hold instead of a function.
DirectiveWords == {"auto", "none", "required"}

\* tool_choice of the canonical request is one of the directive words.
ChoosesByWord(request) ==
  /\ request.tool_choice # Undefined
  /\ request.tool_choice[1].t = "string"
  /\ request.tool_choice[1].v \in DirectiveWords

\* C31 (as claimed): the posted body forces a named tool only when the
\* canonical tool_choice names a function; a directive word (auto, none,
\* required) is never turned into a forced tool of that name, and an absent
\* tool_choice gives no tool_choice in the posted body.
C31_ToolForcedOnlyByFunction ==
  \A c \in Posted :
    /\ oaiBody.tool_choice = Undefined => BodyOf(c).tool_choice = Undefined
    /\ ChoosesByWord(oaiBody) =>
         \/ BodyOf(c).tool_choice = Undefined
         \/ BodyOf(c).tool_choice[1].type # "tool"
         \/ BodyOf(c).tool_choice[1].name # oaiBody.tool_choice[1].v
    /\ (BodyOf(c).tool_choice # Undefined
          /\ BodyOf(c).tool_choice[1].type = "tool") =>
         /\ oaiBody.tool_choice # Undefined
         /\ oaiBody.tool_choice[1].t = "object"
         /\ BodyOf(c).tool_choice[1].name = oaiBody.tool_choice[1].function.name

\* The parts of C31 the code keeps: an absent tool_choice gives none, and a
\* function choice forces the tool of that name.
C31_AbsentAndFunctionChoices ==
  \A c \in Posted :
    /\ oaiBody.tool_choice = Undefined => BodyOf(c).tool_choice = Undefined
    /\ (oaiBody.tool_choice # Undefined /\ oaiBody.tool_choice[1].t = "object") =>
         BodyOf(c).tool_choice =
           Some([type |-> "tool", name |-> oaiBody.tool_choice[1].function.name])

\* The tool chunks a call has yielded so far, in order.
ToolChunks(c) == SelectSeq(out[c], IsToolChunk)

\* C32 (as claimed): within one stream, tool-call deltas of different tool
\* blocks (different ids) carry different index values and the deltas of one
\* block carry the same index.
C32_IndexSeparatesToolCalls ==
  \A c \in DecodingCalls :
    \A i, j \in 1..Len(ToolChunks(c)) :
      (ToolChunks(c)[i].id = ToolChunks(c)[j].id)
        <=> (ToolChunks(c)[i].index = ToolChunks(c)[j].index)

\* The half of C32 the code keeps: the deltas of one block share their index.
C32_OneBlockOneIndex ==
  \A c \in DecodingCalls :
    \A i, j \in 1..Len(ToolChunks(c)) :
      (ToolChunks(c)[i].id = ToolChunks(c)[j].id)
        => (ToolChunks(c)[i].index = ToolChunks(c)[j].index)

\* C33 (as claimed): a generic OpenAI-compatible client constructed from a
\* configuration without apiBase is handed an apiBase that ends with "/",
\* the default of every such provider ending with "/".
C33_DefaultApiBaseEndsWithSlash ==
  (ConstructedFor(OpenAICompatibleProviders)
     /\ constructedWith[1].apiBase = Undefined) =>
    /\ client[1].config.apiBase =
         OpenAICompatibleDefault(constructedWith[1].provider)
    /\ client[1].config.apiBase # Undefined
    /\ EndsWithSlash(client[1].config.apiBase[1])

\* The providers whose default apiBase lacks the final "/".
UnslashedDefaults ==
  {provider \in OpenAICompatibleProviders :
     ~EndsWithSlash(OpenAICompatibleDefault(provider)[1])}

\* What holds of the code instead: the default ends with "/" for every
\* generic provider but msty, ncompass and novita.
C33_AllButThreeEndWithSlash ==
  /\ UnslashedDefaults = {"msty", "ncompass", "novita"}
  /\ (ConstructedFor(OpenAICompatibleProviders \ UnslashedDefaults)
        /\ constructedWith[1].apiBase = Undefined) =>
       EndsWithSlash(client[1].config.apiBase[1])

\* ------------------------------------------------ oneper: commands by steps

\* The crontab is the user's; nothing of oneper is installed but what the
\* crontab names.
InitOneper ==
  /\ InitCalls
  /\ Constructed(DefaultConfig, ExampleRequest)
  /\ load = NotLoading
  /\ latestRun = Undefined
  /\ crontab \in Crontabs
  /\ cronScript = CronJobExists(crontab)
  /\ logFile = CronJobExists(crontab)
  /\ lastInstalledRun = Undefined
  /\ installedBuild = Undefined
  /\ check = NoCheck
  /\ prevCheck = NoCheck

\* gh run list ... | head -1: the newest successful run, or nothing when
\* there is none or gh fails.
LatestRunAnswers == {latestRun, Undefined}

\* The check ends with the exit status given.
Ended(run, code) == [run EXCEPT !.pc = "done", !.exit = Some(code)]

\* A main build completes with success: it is the newest from now on.
BuildCompletes(id) ==
  /\ IF latestRun = Undefined THEN TRUE ELSE id > latestRun[1]
  /\ latestRun' = Some(id)
  /\ UNCHANGED <<crontab, cronScript, logFile, lastInstalledRun, installedBuild,
                 check, prevCheck>>
  /\ UNCHANGED <<callVars, clientVars, load>>

\* oneper --cron-check, up to the comparison with last_installed_run: it
\* ends with failure when no run is found, with success when the run is the
\* recorded one, and goes on to install_from_main otherwise.
CronCheck(answer) ==
  /\ check.pc \in {"none", "done"}
  /\ answer \in LatestRunAnswers
  /\ prevCheck' = check
  /\ check' =
       IF answer = Undefined THEN Ended(NoCheck, 1)
       ELSE LET started == [NoCheck EXCEPT !.current_run_id = answer,
                                           !.last_run_id = lastInstalledRun]
            IN IF NewBuildDetected(answer[1], lastInstalledRun)
               THEN [started EXCEPT !.pc = "install_from_main"]
               ELSE Ended(started, 0)
  /\ UNCHANGED <<latestRun, crontab, cronScript, logFile, lastInstalledRun,
                 installedBuild>>
  /\ UNCHANGED <<callVars, clientVars, load>>

\* install_from_main, up to its own query of the latest run: exit 1 for an
\* unknown platform or when no run is found.
FindLatestBuild(platform, answer) ==
  /\ check.pc = "install_from_main"
  /\ answer \in LatestRunAnswers
  /\ check' =
       IF ArtifactSuffix(platform) = Undefined \/ answer = Undefined
       THEN Ended(check, 1)
       ELSE [check EXCEPT !.pc = "download", !.run_id = answer]
  /\ UNCHANGED <<latestRun, crontab, cronScript, logFile, lastInstalledRun,
                 installedBuild, prevCheck>>
  /\ UNCHANGED <<callVars, clientVars, load>>

\* gh run download of run_id and the search of the VSIX in it: exit 1 when
\* either fails.
DownloadArtifact(ok) ==
  /\ check.pc = "download"
  /\ check' =
       IF ok THEN [check EXCEPT !.pc = "install_extension", !.downloaded = TRUE]
       ELSE Ended(check, 1)
  /\ UNCHANGED <<latestRun, crontab, cronScript, logFile, lastInstalledRun,
                 installedBuild, prevCheck>>
  /\ UNCHANGED <<callVars, clientVars, load>>

\* code --install-extension of the VSIX downloaded: exit 1 when it fails;
\* when it succeeds, check_and_install_if_new writes current_run_id to
\* last_installed_run and the check ends with success.
InstallExtension(ok) ==
  /\ check.pc = "install_extension"
  /\ installedBuild' = IF ok THEN check.run_id ELSE installedBuild
  /\ lastInstalledRun' =
       LastRunFileAfterInstall(ok, check.current_run_id[1], lastInstalledRun)
  /\ check' = Ended(check, IF ok THEN 0 ELSE 1)
  /\ UNCHANGED <<latestRun, crontab, cronScript, logFile, prevCheck>>
  /\ UNCHANGED <<callVars, clientVars, load>>

\* oneper setup-cron [--interval n]: the cron script and the log file are
\* created, the old job leaves the crontab and the new one enters it.
SetupCron(option) ==
  /\ cronScript' = TRUE
  /\ logFile' = TRUE
  /\ crontab' = CrontabAfterSetup(crontab, Coalesce(option, DefaultInterval))
  /\ UNCHANGED <<latestRun, lastInstalledRun, installedBuild, check, prevCheck>>
  /\ UNCHANGED <<callVars, clientVars, load>>

\* oneper remove-cron: the job leaves the crontab, the cron script, the log
\* file and last_installed_run are removed.
RemoveCron ==
  /\ crontab' = CrontabAfterRemove(crontab)
  /\ cronScript' = FALSE
  /\ logFile' = FALSE
  /\ lastInstalledRun' = Undefined
  /\ UNCHANGED <<latestRun, installedBuild, check, prevCheck>>
  /\ UNCHANGED <<callVars, clientVars, load>>

NextOneper ==
  \/ \E id \in RunIds : BuildCompletes(id)
  \/ \E answer \in LatestRunAnswers : CronCheck(answer)
  \/ \E platform \in Platforms, answer \in LatestRunAnswers :
       FindLatestBuild(platform, answer)
  \/ \E ok \in BOOLEAN : DownloadArtifact(ok)
  \/ \E ok \in BOOLEAN : InstallExtension(ok)
  \/ \E option \in IntervalOptions : SetupCron(option)
  \/ RemoveCron

SpecOneper == InitOneper /\ [][NextOneper]_vars

\* ------------------------------------------------------ oneper: properties

\* The check is inside install_from_main.
Installing == check.pc \in {"install_from_main", "download", "install_extension"}

\* The check that ended last downloaded and installed a build with success.
InstalledWithSuccess(run) ==
  run.pc = "done" /\ run.exit = Some(0) /\ run.downloaded

C35_FailureKeepsLastRun ==
  /\ [][(check' # check /\ check'.exit = Some(1)) =>
          lastInstalledRun' = lastInstalledRun]_vars
  /\ [][(CronCheck(Undefined) \/ DownloadArtifact(FALSE) \/ InstallExtension(FALSE)) =>
          (check'.pc = "done" /\ check'.exit = Some(1))]_vars
  /\ [][(lastInstalledRun' # lastInstalledRun /\ lastInstalledRun' # Undefined) =>
          /\ check.pc = "install_extension"
          /\ check'.exit = Some(0)
          /\ installedBuild' = check.run_id
          /\ lastInstalledRun' = check.current_run_id]_vars
  /\ [][\A answer \in LatestRunAnswers :
          (/\ CronCheck(answer)
           /\ check.pc = "done"
           /\ check.exit = Some(1)
           /\ answer # Undefined
           /\ answer = check.current_run_id) =>
            check'.pc = "install_from_main"]_vars

\* A check whose install failed after the download, followed by a check that
\* attempts the same build.
C35_Witness ==
  /\ prevCheck.pc = "done"
  /\ prevCheck.exit = Some(1)
  /\ prevCheck.downloaded
  /\ check.pc = "install_from_main"
  /\ check.current_run_id = prevCheck.current_run_id
  /\ lastInstalledRun # check.current_run_id

\* C36 (as claimed): after every step that ends a check with success,
\* last_installed_run holds the id of the run whose artifact is installed.
C36_LastRunIsInstalledBuild ==
  [][((\E answer \in LatestRunAnswers : CronCheck(answer)) \/ InstallExtension(TRUE)) =>
       (check'.exit = Some(0) => lastInstalledRun' = installedBuild')]_vars

\* What holds of the code instead: the check records the run id of its own
\* query, and the build installed is the one install_from_main found.
C36_RecordsOwnQuery ==
  [][InstallExtension(TRUE) =>
       /\ lastInstalledRun' = check.current_run_id
       /\ installedBuild' = check.run_id]_vars

\* The lines of the crontab that oneper wrote, and the others.
IsCronJob(line) == \E interval \in Intervals \cup {DefaultInterval} : line = CronLine(interval)

NotCronJob(line) == ~IsCronJob(line)

CronJobs(lines) == SelectSeq(lines, IsCronJob)

OtherEntries(lines) == SelectSeq(lines, NotCronJob)

\* C37 (as claimed): after setup-cron the crontab holds at most one
\* oneper-cron.sh entry, of the interval given; after remove-cron it holds
\* none and the cron script, the log file and last_installed_run are gone;
\* neither command changes the entries of other programs.
C37_CrontabHoldsOneJob ==
  /\ [][\A option \in IntervalOptions :
          SetupCron(option) =>
            /\ Len(CronJobs(crontab')) <= 1
            /\ \A i \in 1..Len(CronJobs(crontab')) :
                 CronJobs(crontab')[i].every = Coalesce(option, DefaultInterval)
            /\ OtherEntries(crontab') = OtherEntries(crontab)]_vars
  /\ [][RemoveCron =>
          /\ CronJobs(crontab') = <<>>
          /\ ~cronScript' /\ ~logFile' /\ lastInstalledRun' = Undefined
          /\ OtherEntries(crontab') = OtherEntries(crontab)]_vars

\* What holds of the code instead: the entries that do not hold the text
\* oneper-cron.sh are kept, in their order, and setup-cron leaves exactly
\* one job, of the interval given.
C37_UnrelatedEntriesKept ==
  /\ [][\A option \in IntervalOptions :
          SetupCron(option) =>
            /\ CronJobs(crontab') = <<CronLine(Coalesce(option, DefaultInterval))>>
            /\ WithoutCronJob(crontab') = WithoutCronJob(crontab)]_vars
  /\ [][RemoveCron =>
          /\ CronJobs(crontab') = <<>>
          /\ ~cronScript' /\ ~logFile' /\ lastInstalledRun' = Undefined
          /\ crontab' = WithoutCronJob(crontab)]_vars

====
